---- MODULE Spec2Model ----
(***************************************************************************)
(* Streaming accumulators of the OpenAI and Gemini model adapters          *)
(* (pydantic_ai/models/openai.py, pydantic_ai/models/gemini.py).           *)
(*                                                                         *)
(* One exchange is modelled: the transport holds a stream chosen in Init,  *)
(* request_stream primes on it chunk by chunk and returns a text or a      *)
(* structured accumulator, which the caller then drives with __anext__     *)
(* (advance) and get (materialize).                                        *)
(***************************************************************************)
EXTENDS Naturals, Integers, Sequences, FiniteSets, TLC

VARIABLES
    provider,           \* "openai" or "gemini": which adapter runs the exchange
    phase,              \* "priming", "text", "structured" or "failed"
    signal,             \* outcome of the last call: "none", "ok", "end", "error"
    error,              \* the exception the last failing call raised, "" if none
    _cost,              \* _cost of the accumulator (start_cost while priming)
    \* OpenAI
    _response,          \* the AsyncStream: the chunks the transport will deliver
    consumed,           \* number of chunks taken from _response so far
    _first,             \* OpenAIStreamTextResponse._first
    _buffer,            \* OpenAIStreamTextResponse._buffer
    _delta_tool_calls,  \* OpenAIStreamStructuredResponse._delta_tool_calls
    \* Gemini
    _stream,            \* the bytes the transport will deliver, as tokens
    wire,               \* the top-level elements _stream serialises
    sent,               \* number of tokens of _stream delivered so far
    _json_content,      \* the accumulated bytearray (_content / _json_content)
    _position,          \* GeminiStreamTextResponse._position
    \* what the caller has observed
    out,                \* every text fragment returned by get so far, in order
    reported,           \* Gemini text: indexes of the elements get has processed
    lastText,           \* fragments returned by the last get of a text accumulator
    lastResponse,       \* parts of the ModelResponse returned by the last get
    gets,               \* the final flags of the get calls since the last __anext__
    \* a non-streamed request: reconstruction of the response
    received,           \* the wire response handed to _process_response
    returned,           \* what _process_response gave back: a ModelResponse or an error
    \* a request being built
    messages,           \* the conversation: list[Message]
    tools,              \* the tools of the agent model (function and result tools)
    allow_text_result,  \* allow_text_result of the agent model
    model_settings,     \* ModelSettings: the settings the caller supplied
    request_data,       \* the wire request that was built, or the error raised
    \* the schema simplifier
    parameters_json_schema, \* the schema given to _GeminiJsonSchema, $defs included
    simplified,         \* what simplify() gave back: a schema or an error
    \* a function applied to its arguments
    argument,           \* the function and the arguments it is given
    value,              \* what the function returned, or the error it raised
    \* the transport, and accumulators side by side
    log,                \* what has been done with the HTTP response, in order
    accumulators        \* the stream accumulators of concurrent exchanges

vars == <<provider, phase, signal, error, _cost, _response, consumed, _first, _buffer,
          _delta_tool_calls, _stream, wire, sent, _json_content, _position,
          out, reported, lastText, lastResponse, gets,
          received, returned, messages, tools, allow_text_result, model_settings,
          request_data, parameters_json_schema, simplified,
          argument, value, log, accumulators>>

oaVars == <<_response, consumed, _first, _buffer, _delta_tool_calls>>
gVars == <<_stream, wire, sent, _json_content, _position, reported>>
callVars == <<received, returned, messages, tools, allow_text_result, model_settings,
              request_data, parameters_json_schema, simplified>>
pureVars == <<argument, value, log, accumulators>>

(***************************************************************************)
(* Bounds of the model.                                                    *)
(***************************************************************************)
MaxChunks == 2
MaxElems == 2
MaxRepeats == 1

(***************************************************************************)
(* Optional values: None, or a one-element sequence holding the value.     *)
(***************************************************************************)
None == <<>>
Some(x) == <<x>>

Last(s) == s[Len(s)]
Front(s) == SubSeq(s, 1, Len(s) - 1)

RECURSIVE SeqsUpTo(_, _)
SeqsUpTo(S, n) ==
    IF n = 0 THEN {<<>>}
    ELSE LET shorter == SeqsUpTo(S, n - 1)
         IN shorter \cup {Append(s, x) : s \in {t \in shorter : Len(t) = n - 1}, x \in S}

(***************************************************************************)
(* result.Cost: token counts and a details mapping; absent counts are 0.   *)
(***************************************************************************)
NoDetails == [k \in {} |-> 0]

Cost(req, resp, total, details) ==
    [request_tokens |-> req, response_tokens |-> resp, total_tokens |-> total,
     details |-> details]

ZeroCost == Cost(0, 0, 0, NoDetails)

DetailOf(d, k) == IF k \in DOMAIN d THEN d[k] ELSE 0

\* An addition that keeps the details of the left operand when it has any.
CostAdd_left_details(a, b) ==
    Cost(a.request_tokens + b.request_tokens,
         a.response_tokens + b.response_tokens,
         a.total_tokens + b.total_tokens,
         IF DOMAIN a.details # {} THEN a.details ELSE b.details)

CostAdd(a, b) ==
    Cost(a.request_tokens + b.request_tokens,
         a.response_tokens + b.response_tokens,
         a.total_tokens + b.total_tokens,
         [k \in (DOMAIN a.details) \cup (DOMAIN b.details) |->
             DetailOf(a.details, k) + DetailOf(b.details, k)])

RECURSIVE CostSum(_)
CostSum(costs) ==
    IF costs = <<>> THEN ZeroCost ELSE CostAdd(CostSum(Front(costs)), Last(costs))

(***************************************************************************)
(* _utils.add_optional on optional strings.                                *)
(***************************************************************************)
add_optional(a, b) ==
    IF a = None THEN b
    ELSE IF b = None THEN a
    ELSE Some(a[1] \o b[1])

(***************************************************************************)
(* OpenAI wire: ChatCompletionChunk, Choice, ChoiceDelta,                  *)
(* ChoiceDeltaToolCall.                                                    *)
(***************************************************************************)
Usage(p, c, cd, pd) ==
    [prompt_tokens |-> p, completion_tokens |-> c, total_tokens |-> p + c,
     completion_tokens_details |-> cd, prompt_tokens_details |-> pd]

ChoiceDeltaToolCall(i, id, fn) == [index |-> i, id |-> id, function |-> fn]
Function(name, arguments) == Some([name |-> name, arguments |-> arguments])

Choice(content, tool_calls, finish_reason) ==
    [delta |-> [content |-> content, tool_calls |-> tool_calls],
     finish_reason |-> finish_reason]

Chunk(usage, choices) == [usage |-> usage, choices |-> choices]

UsageA == Usage(1, 1, None, None)
UsageB == Usage(2, 3, Some([reasoning_tokens |-> 1]), None)

FragName0 == ChoiceDeltaToolCall(0, Some("call_0"), Function(Some("foo"), None))
FragArgs0 == ChoiceDeltaToolCall(0, None, Function(None, Some("{}")))
FragFull1 == ChoiceDeltaToolCall(1, Some("call_1"), Function(Some("bar"), Some("[]")))
FragBare0 == ChoiceDeltaToolCall(0, Some("call_0"), None)
FragMore0 == ChoiceDeltaToolCall(0, Some("call_x"), Function(Some("x"), Some("!")))

RoleChunk == Chunk(Some(UsageA), <<Choice(None, None, None)>>)
EmptyDeltaChunk == Chunk(None, <<Choice(None, None, None)>>)
ContentChunk(s) == Chunk(None, <<Choice(Some(s), None, None)>>)
ToolChunk(frags) == Chunk(None, <<Choice(None, Some(frags), None)>>)
FinishChunk == Chunk(None, <<Choice(None, None, Some("stop"))>>)
UsageChunk == Chunk(Some(UsageB), <<>>)

TextChunks ==
    {ContentChunk("Hello"), ContentChunk(" world"), ToolChunk(<<FragName0>>),
     EmptyDeltaChunk}

ToolChunks ==
    {ToolChunk(<<FragName0>>), ToolChunk(<<FragArgs0>>), ToolChunk(<<FragFull1>>),
     ToolChunk(<<FragBare0>>), ToolChunk(<<FragMore0>>),
     ToolChunk(<<FragName0, FragFull1>>), ToolChunk(<<FragName0, FragArgs0>>),
     ContentChunk("Hello")}

Preambles == {<<>>, <<RoleChunk>>}
Tails == {<<>>, <<FinishChunk>>, <<FinishChunk, UsageChunk>>}

OpenAIStreams ==
    {pre \o body \o tail :
        pre \in Preambles,
        body \in SeqsUpTo(TextChunks, MaxChunks) \cup SeqsUpTo(ToolChunks, MaxChunks),
        tail \in Tails}

(***************************************************************************)
(* _map_cost: the usage of a chunk as a Cost.  The details of the          *)
(* completion are written first, those of the prompt over them.            *)
(***************************************************************************)
DumpDetails(d) == IF d = None THEN NoDetails ELSE d[1]

_map_cost(response) ==
    IF response.usage = None THEN ZeroCost
    ELSE LET usage == response.usage[1]
             cd == DumpDetails(usage.completion_tokens_details)
             pd == DumpDetails(usage.prompt_tokens_details)
         IN Cost(usage.prompt_tokens, usage.completion_tokens, usage.total_tokens,
                 [k \in (DOMAIN cd) \cup (DOMAIN pd) |->
                     IF k \in DOMAIN pd THEN pd[k] ELSE cd[k]])

(***************************************************************************)
(* messages.py: the canonical response parts.                              *)
(***************************************************************************)
TextPart(content) == [part_kind |-> "text", content |-> content]

ToolCallPart_from_json(tool_name, args_json, tool_call_id) ==
    [part_kind |-> "tool-call", tool_name |-> tool_name,
     args |-> [args_json |-> args_json], tool_call_id |-> tool_call_id]

ToolCallPart_from_dict(tool_name, args_dict) ==
    [part_kind |-> "tool-call", tool_name |-> tool_name,
     args |-> [args_dict |-> args_dict], tool_call_id |-> None]

(***************************************************************************)
(* A dict keyed by index, in insertion order: a sequence of the values,    *)
(* each carrying its key in .index.                                        *)
(***************************************************************************)
DictHas(d, i) == \E n \in 1..Len(d) : d[n].index = i
DictSlot(d, i) == CHOOSE n \in 1..Len(d) : d[n].index = i
DictGet(d, i) == d[DictSlot(d, i)]
DictSet(d, v) ==
    IF DictHas(d, v.index) THEN [d EXCEPT ![DictSlot(d, v.index)] = v]
    ELSE Append(d, v)

RECURSIVE DictOf(_)
DictOf(calls) ==
    IF calls = <<>> THEN <<>> ELSE DictSet(DictOf(Front(calls)), Last(calls))

(***************************************************************************)
(* What the caller has asked since the last __anext__: a get call appends  *)
(* its final flag; only the last two calls are kept.                       *)
(***************************************************************************)
Noted(final) ==
    LET g == Append(gets, final)
    IN IF Len(g) > 2 THEN Tail(g) ELSE g

(***************************************************************************)
(* OpenAIAgentModel._process_streamed_response: one turn of its loop.      *)
(***************************************************************************)
\* A priming that hands back a text accumulator when the stream ends with
\* nothing classified.
OpenAIPrime_empty_result ==
    /\ provider = "openai"
    /\ phase = "priming"
    /\ IF consumed = Len(_response)
       THEN /\ phase' = "text"
            /\ UNCHANGED <<signal, error, _cost, consumed, _first, _delta_tool_calls>>
       ELSE LET chunk == _response[consumed + 1]
                delta == chunk.choices[1].delta
            IN /\ consumed' = consumed + 1
               /\ _cost' = CostAdd(_cost, _map_cost(chunk))
               /\ UNCHANGED <<signal, error>>
               /\ IF chunk.choices # <<>> /\ delta.content # None
                  THEN /\ phase' = "text"
                       /\ _first' = delta.content
                       /\ UNCHANGED _delta_tool_calls
                  ELSE IF chunk.choices # <<>> /\ delta.tool_calls # None
                  THEN /\ phase' = "structured"
                       /\ _delta_tool_calls' = DictOf(delta.tool_calls[1])
                       /\ UNCHANGED _first
                  ELSE UNCHANGED <<phase, _first, _delta_tool_calls>>
    /\ UNCHANGED <<provider, _response, _buffer, out, lastText, lastResponse, gets>>
    /\ UNCHANGED gVars
    /\ UNCHANGED callVars
    /\ UNCHANGED pureVars

OpenAIPrime ==
    /\ provider = "openai"
    /\ phase = "priming"
    /\ IF consumed = Len(_response)
       THEN \* StopAsyncIteration from the transport
            /\ phase' = "failed"
            /\ signal' = "error"
            /\ error' = "UnexpectedModelBehavior"
            /\ UNCHANGED <<_cost, consumed, _first, _delta_tool_calls>>
       ELSE LET chunk == _response[consumed + 1]
                delta == chunk.choices[1].delta
            IN /\ consumed' = consumed + 1
               /\ _cost' = CostAdd(_cost, _map_cost(chunk))
               /\ UNCHANGED <<signal, error>>
               /\ IF chunk.choices # <<>> /\ delta.content # None
                  THEN /\ phase' = "text"
                       /\ _first' = delta.content
                       /\ UNCHANGED _delta_tool_calls
                  ELSE IF chunk.choices # <<>> /\ delta.tool_calls # None
                  THEN /\ phase' = "structured"
                       /\ _delta_tool_calls' = DictOf(delta.tool_calls[1])
                       /\ UNCHANGED _first
                  ELSE UNCHANGED <<phase, _first, _delta_tool_calls>>
    /\ UNCHANGED <<provider, _response, _buffer, out, lastText, lastResponse, gets>>
    /\ UNCHANGED gVars
    /\ UNCHANGED callVars
    /\ UNCHANGED pureVars

(***************************************************************************)
(* OpenAIStreamTextResponse.__anext__ and get.                             *)
(***************************************************************************)
OpenAIStreamTextResponse_anext ==
    /\ provider = "openai"
    /\ phase = "text"
    /\ signal \in {"none", "ok"}
    /\ gets' = <<>>
    /\ IF _first # None
       THEN /\ _buffer' = Append(_buffer, _first[1])
            /\ _first' = None
            /\ signal' = "ok"
            /\ UNCHANGED <<_cost, consumed, error>>
       ELSE IF consumed = Len(_response)
       THEN \* StopAsyncIteration from the transport
            /\ signal' = "end"
            /\ UNCHANGED <<_cost, consumed, error, _first, _buffer>>
       ELSE LET chunk == _response[consumed + 1]
                choice == chunk.choices[1]
            IN /\ consumed' = consumed + 1
               /\ _cost' = CostAdd(_cost, _map_cost(chunk))
               /\ UNCHANGED _first
               /\ IF chunk.choices = <<>>
                  THEN /\ signal' = "end"
                       /\ UNCHANGED <<error, _buffer>>
                  ELSE IF choice.finish_reason = None /\ choice.delta.content = None
                  THEN /\ signal' = "error"
                       /\ error' = "AssertionError"
                       /\ UNCHANGED _buffer
                  ELSE /\ signal' = "ok"
                       /\ UNCHANGED error
                       /\ _buffer' = IF choice.delta.content # None
                                     THEN Append(_buffer, choice.delta.content[1])
                                     ELSE _buffer
    /\ UNCHANGED <<provider, phase, _response, _delta_tool_calls, out, lastText,
                   lastResponse>>
    /\ UNCHANGED gVars
    /\ UNCHANGED callVars
    /\ UNCHANGED pureVars

\* A get that leaves the buffer as it is.
OpenAIStreamTextResponse_get_keeps_buffer(final) ==
    /\ provider = "openai"
    /\ phase = "text"
    /\ signal # "error"
    /\ lastText' = _buffer
    /\ out' = out \o _buffer
    /\ gets' = Noted(final)
    /\ UNCHANGED <<provider, phase, signal, error, _cost, _response, consumed, _first,
                   _buffer, _delta_tool_calls, lastResponse>>
    /\ UNCHANGED gVars
    /\ UNCHANGED callVars
    /\ UNCHANGED pureVars

OpenAIStreamTextResponse_get(final) ==
    /\ provider = "openai"
    /\ phase = "text"
    /\ signal # "error"
    /\ lastText' = _buffer
    /\ out' = out \o _buffer
    /\ _buffer' = <<>>
    /\ gets' = Noted(final)
    /\ UNCHANGED <<provider, phase, signal, error, _cost, _response, consumed, _first,
                   _delta_tool_calls, lastResponse>>
    /\ UNCHANGED gVars
    /\ UNCHANGED callVars
    /\ UNCHANGED pureVars

(***************************************************************************)
(* OpenAIStreamStructuredResponse.__anext__ and get.                       *)
(***************************************************************************)
\* A merge that puts the new fragment in the place of the call held.
MergeToolCall_replacing(calls, new) == DictSet(calls, new)

MergeToolCall(calls, new) ==
    IF DictHas(calls, new.index)
    THEN LET current == DictGet(calls, new.index)
         IN IF current.function = None
            THEN DictSet(calls, [current EXCEPT !.function = new.function])
            ELSE IF new.function # None
            THEN DictSet(calls, [current EXCEPT !.function =
                    Function(add_optional(current.function[1].name, new.function[1].name),
                             add_optional(current.function[1].arguments,
                                          new.function[1].arguments))])
            ELSE calls
    ELSE Append(calls, new)

RECURSIVE MergeToolCalls(_, _)
MergeToolCalls(calls, news) ==
    IF news = <<>> THEN calls
    ELSE MergeToolCalls(MergeToolCall(calls, Head(news)), Tail(news))

StopsAtFinish_never(choice) == FALSE

\* if choice.finish_reason is not None: raise StopAsyncIteration()
StopsAtFinish(choice) == choice.finish_reason # None

ExpectedToolCalls_unchecked(choice) == TRUE

\* assert choice.delta.content is None, 'Expected tool calls, got content instead'
ExpectedToolCalls(choice) == choice.delta.content = None

OpenAIStreamStructuredResponse_anext ==
    /\ provider = "openai"
    /\ phase = "structured"
    /\ signal \in {"none", "ok"}
    /\ gets' = <<>>
    /\ IF consumed = Len(_response)
       THEN \* StopAsyncIteration from the transport
            /\ signal' = "end"
            /\ UNCHANGED <<_cost, consumed, error, _delta_tool_calls>>
       ELSE LET chunk == _response[consumed + 1]
                choice == chunk.choices[1]
            IN /\ consumed' = consumed + 1
               /\ _cost' = CostAdd(_cost, _map_cost(chunk))
               /\ IF chunk.choices = <<>> \/ StopsAtFinish(choice)
                  THEN /\ signal' = "end"
                       /\ UNCHANGED <<error, _delta_tool_calls>>
                  ELSE IF ~ExpectedToolCalls(choice)
                  THEN /\ signal' = "error"
                       /\ error' = "AssertionError"
                       /\ UNCHANGED _delta_tool_calls
                  ELSE /\ signal' = "ok"
                       /\ UNCHANGED error
                       /\ _delta_tool_calls' =
                            MergeToolCalls(_delta_tool_calls,
                                           IF choice.delta.tool_calls = None THEN <<>>
                                           ELSE choice.delta.tool_calls[1])
    /\ UNCHANGED <<provider, phase, _response, _first, _buffer, out, lastText,
                   lastResponse>>
    /\ UNCHANGED gVars
    /\ UNCHANGED callVars
    /\ UNCHANGED pureVars

\* A get that materializes every call that has a name.
RECURSIVE StructuredItems_named(_)
StructuredItems_named(calls) ==
    IF calls = <<>> THEN <<>>
    ELSE LET c == Last(calls)
             rest == StructuredItems_named(Front(calls))
         IN IF c.function # None /\ c.function[1].name # None
            THEN Append(rest, ToolCallPart_from_json(
                                 c.function[1].name[1],
                                 IF c.function[1].arguments = None THEN ""
                                 ELSE c.function[1].arguments[1],
                                 c.id))
            ELSE rest

RECURSIVE StructuredItems(_)
StructuredItems(calls) ==
    IF calls = <<>> THEN <<>>
    ELSE LET c == Last(calls)
             rest == StructuredItems(Front(calls))
         IN IF c.function # None /\ c.function[1].name # None
                                 /\ c.function[1].arguments # None
            THEN Append(rest, ToolCallPart_from_json(c.function[1].name[1],
                                                     c.function[1].arguments[1], c.id))
            ELSE rest

OpenAIStreamStructuredResponse_get(final) ==
    /\ provider = "openai"
    /\ phase = "structured"
    /\ signal # "error"
    /\ lastResponse' = StructuredItems(_delta_tool_calls)
    /\ UNCHANGED <<provider, phase, signal, error, _cost, out, lastText, gets>>
    /\ UNCHANGED oaVars
    /\ UNCHANGED callVars
    /\ UNCHANGED pureVars
    /\ UNCHANGED gVars
    /\ UNCHANGED callVars
    /\ UNCHANGED pureVars

(***************************************************************************)
(* Gemini wire.  A streamed body is one JSON array of _GeminiResponse      *)
(* objects.  Its bytes are modelled as tokens, the places where a network  *)
(* chunk can end:                                                          *)
(*   "["      opens the array                                              *)
(*   "{"      opens an element, its candidate and the candidate's content, *)
(*            with the content's role, up to the start of its parts        *)
(*   "str"    opens a text part and the first bytes of its string          *)
(*   "end"    the rest of the string and the end of the text part          *)
(*   "call"   a whole functionCall part                                    *)
(*   "resp"   a whole functionResponse part                                *)
(*   "usage"  the element's usageMetadata, when it has one                 *)
(*   "}"      closes the element                                           *)
(*   "]"      closes the array                                             *)
(* A content's role is written before its parts, the field order of       *)
(* _GeminiContent.                                                         *)
(***************************************************************************)
_GeminiTextPart(pre, post) == [text |-> <<pre, post>>]
_GeminiFunctionCallPart(name, args) == [function_call |-> [name |-> name, args |-> args]]
_GeminiFunctionResponsePart(name) == [function_response |-> [name |-> name]]
_GeminiResponse(parts, usage) == [parts |-> parts, usage_metadata |-> usage]

MetaA == [prompt_token_count |-> 1, candidates_token_count |-> 2, total_token_count |-> 3]
MetaB == [prompt_token_count |-> 2, total_token_count |-> 2, cached_content_token_count |-> 1]

PartHello == _GeminiTextPart("Hel", "lo")
PartWorld == _GeminiTextPart(" wor", "ld")
PartCallF == _GeminiFunctionCallPart("f", "{x}")
PartCallG == _GeminiFunctionCallPart("g", "{}")
PartResp == _GeminiFunctionResponsePart("f")

GeminiElements ==
    {_GeminiResponse(<<PartHello>>, Some(MetaA)),
     _GeminiResponse(<<PartWorld, PartHello>>, None),
     _GeminiResponse(<<PartCallF>>, Some(MetaB)),
     _GeminiResponse(<<PartCallG, PartCallF>>, Some(MetaA)),
     _GeminiResponse(<<PartHello, PartCallF>>, Some(MetaB)),
     _GeminiResponse(<<PartResp>>, None),
     _GeminiResponse(<<>>, None)}

Tok(t) == [t |-> t]

PartTokens(part) ==
    IF "text" \in DOMAIN part
    THEN <<[t |-> "str", s |-> part.text[1]], [t |-> "end", s |-> part.text[2]]>>
    ELSE IF "function_call" \in DOMAIN part
    THEN <<[t |-> "call", call |-> part.function_call]>>
    ELSE <<[t |-> "resp", resp |-> part.function_response]>>

RECURSIVE PartsTokens(_)
PartsTokens(parts) ==
    IF parts = <<>> THEN <<>> ELSE PartTokens(Head(parts)) \o PartsTokens(Tail(parts))

ElementTokens(e) ==
    <<Tok("{")>>
    \o PartsTokens(e.parts)
    \o (IF e.usage_metadata = None THEN <<>>
        ELSE <<[t |-> "usage", usage_metadata |-> e.usage_metadata[1]]>>)
    \o <<Tok("}")>>

RECURSIVE ElementsTokens(_)
ElementsTokens(es) ==
    IF es = <<>> THEN <<>> ELSE ElementTokens(Head(es)) \o ElementsTokens(Tail(es))

dump_json(es) == <<Tok("[")>> \o ElementsTokens(es) \o <<Tok("]")>>

(***************************************************************************)
(* pydantic_core.from_json on the accumulated bytes.  allow_partial is     *)
(* "off" (strict: the array must be closed), "on" (an unfinished trailing  *)
(* string is dropped, leaving its object empty) or "trailing-strings" (an  *)
(* unfinished trailing string is kept as far as it goes).  In both partial *)
(* modes an element counts as soon as its "{" has arrived.                 *)
(***************************************************************************)
EmptyObject == [k \in {} |-> 0]

Scan(st, tok) ==
    LET n == Len(st.items)
        item == st.items[n]
        addPart(p) == [st EXCEPT !.items[n].parts = Append(@, p)]
    IN CASE tok.t = "["     -> [st EXCEPT !.started = TRUE]
         [] tok.t = "{"     -> [st EXCEPT !.items = Append(@,
                                   [role |-> "model", parts |-> <<>>,
                                    usage_metadata |-> None])]
         [] tok.t = "str"   -> addPart([text |-> tok.s, trailing |-> TRUE])
         [] tok.t = "end"   -> [st EXCEPT !.items[n].parts[Len(item.parts)] =
                                   [text |-> @.text \o tok.s, trailing |-> FALSE]]
         [] tok.t = "call"  -> addPart([function_call |-> tok.call])
         [] tok.t = "resp"  -> addPart([function_response |-> tok.resp])
         [] tok.t = "usage" -> [st EXCEPT !.items[n].usage_metadata = Some(tok.usage_metadata)]
         [] tok.t = "}"     -> st
         [] tok.t = "]"     -> [st EXCEPT !.done = TRUE]

RECURSIVE ScanAll(_, _)
ScanAll(st, data) ==
    IF data = <<>> THEN st ELSE ScanAll(Scan(st, Head(data)), Tail(data))

JsonPart(p, allow_partial) ==
    IF "text" \in DOMAIN p
    THEN IF p.trailing /\ allow_partial = "on" THEN EmptyObject ELSE [text |-> p.text]
    ELSE p

JsonItem(item, allow_partial) ==
    [item EXCEPT !.parts = [i \in 1..Len(item.parts) |-> JsonPart(item.parts[i], allow_partial)]]

\* A parse that takes an unclosed array in every mode.
from_json_lenient(data, allow_partial) ==
    LET st == ScanAll([items |-> <<>>, started |-> FALSE, done |-> FALSE], data)
    IN IF ~st.started
       THEN [ok |-> FALSE, value |-> <<>>]
       ELSE [ok |-> TRUE,
             value |-> [i \in 1..Len(st.items) |-> JsonItem(st.items[i], allow_partial)]]

from_json(data, allow_partial) ==
    LET st == ScanAll([items |-> <<>>, started |-> FALSE, done |-> FALSE], data)
    IN IF ~st.started \/ (allow_partial = "off" /\ ~st.done)
       THEN [ok |-> FALSE, value |-> <<>>]
       ELSE [ok |-> TRUE,
             value |-> [i \in 1..Len(st.items) |-> JsonItem(st.items[i], allow_partial)]]

(***************************************************************************)
(* _gemini_streamed_response_ta: validation of list[_GeminiResponse].      *)
(* A part needs its text, functionCall or functionResponse.  With partial  *)
(* validation an error in the last item of the last list drops that item.  *)
(***************************************************************************)
ValidPart(p) ==
    \/ "text" \in DOMAIN p
    \/ "function_call" \in DOMAIN p
    \/ "function_response" \in DOMAIN p

ValidatedParts(parts, tolerant) ==
    IF tolerant /\ parts # <<>> /\ ~ValidPart(Last(parts)) THEN Front(parts) ELSE parts

ValidCandidate(item, tolerant) ==
    \A i \in 1..Len(ValidatedParts(item.parts, tolerant)) : ValidPart(item.parts[i])

ValidatedResponse(item, tolerant) ==
    [candidates |-> <<[content |-> [role |-> item.role,
                                    parts |-> ValidatedParts(item.parts, tolerant)]]>>,
     usage_metadata |-> item.usage_metadata]

validate_python(items, allow_partial) ==
    LET n == Len(items)
        tolerant(i) == allow_partial # "off" /\ i = n
    IN IF \E i \in 1..n : ~ValidCandidate(items[i], tolerant(i))
       THEN [ok |-> FALSE, value |-> <<>>]
       ELSE [ok |-> TRUE,
             value |-> [i \in 1..n |-> ValidatedResponse(items[i], tolerant(i))]]

validate_json(data, allow_partial) ==
    LET parsed == from_json(data, allow_partial)
    IN IF parsed.ok THEN validate_python(parsed.value, allow_partial)
       ELSE [ok |-> FALSE, value |-> <<>>]

(***************************************************************************)
(* A Python slice s[lo:hi] of a list; hi = None is s[lo:].                 *)
(***************************************************************************)
PyIndex(n, i) ==
    IF i < 0 THEN (IF n + i < 0 THEN 0 ELSE n + i) ELSE (IF i > n THEN n ELSE i)

\* A slice that runs to the end of the list whatever hi is.
PySlice_to_the_end(s, lo, hi) == SubSeq(s, PyIndex(Len(s), lo) + 1, Len(s))

PySlice(s, lo, hi) ==
    SubSeq(s, PyIndex(Len(s), lo) + 1, IF hi = None THEN Len(s) ELSE PyIndex(Len(s), hi[1]))

(***************************************************************************)
(* _metadata_as_cost, _all_text_parts, _all_function_call_parts,           *)
(* _process_response_from_parts.                                           *)
(***************************************************************************)
MetaGet(m, k) == IF k \in DOMAIN m THEN m[k] ELSE 0

_metadata_as_cost(response) ==
    IF response.usage_metadata = None THEN ZeroCost
    ELSE LET metadata == response.usage_metadata[1]
         IN Cost(MetaGet(metadata, "prompt_token_count"),
                 MetaGet(metadata, "candidates_token_count"),
                 MetaGet(metadata, "total_token_count"),
                 IF MetaGet(metadata, "cached_content_token_count") # 0
                 THEN [cached_content_token_count |-> metadata.cached_content_token_count]
                 ELSE NoDetails)

_all_text_parts(parts) == \A i \in 1..Len(parts) : "text" \in DOMAIN parts[i]
_all_function_call_parts(parts) == \A i \in 1..Len(parts) : "function_call" \in DOMAIN parts[i]

HasFunctionResponse(parts) == \E i \in 1..Len(parts) : "function_response" \in DOMAIN parts[i]

\* The parts taken from the last to the first.
_process_response_from_parts_reversed(parts) ==
    [i \in 1..Len(parts) |->
        LET part == parts[Len(parts) + 1 - i]
        IN IF "text" \in DOMAIN part THEN TextPart(part.text)
           ELSE ToolCallPart_from_dict(part.function_call.name, part.function_call.args)]

_process_response_from_parts(parts) ==
    [i \in 1..Len(parts) |->
        IF "text" \in DOMAIN parts[i] THEN TextPart(parts[i].text)
        ELSE ToolCallPart_from_dict(parts[i].function_call.name, parts[i].function_call.args)]

(***************************************************************************)
(* GeminiAgentModel._process_streamed_response: one turn of its loop, and  *)
(* the classification that follows the turn that found content.            *)
(***************************************************************************)
GeminiPrime ==
    /\ provider = "gemini"
    /\ phase = "priming"
    /\ UNCHANGED <<provider, signal, _cost, _stream, wire, _position, reported,
                   out, lastText, lastResponse, gets>>
    /\ UNCHANGED oaVars
    /\ UNCHANGED callVars
    /\ UNCHANGED pureVars
    /\ IF sent = Len(_stream)
       THEN \* the stream ended and start_response is still None
            /\ phase' = "failed"
            /\ error' = "UnexpectedModelBehavior"
            /\ UNCHANGED <<sent, _json_content>>
       ELSE \E n \in 1..(Len(_stream) - sent) :
            LET chunk == SubSeq(_stream, sent + 1, sent + n)
                content == _json_content \o chunk
                responses == validate_json(content, "trailing-strings")
                last == Last(responses.value)
                parts == last.candidates[1].content.parts
            IN /\ sent' = sent + n
               /\ _json_content' = content
               /\ IF ~responses.ok
                  THEN phase' = "failed" /\ error' = "ValidationError"
                  ELSE IF responses.value # <<>> /\ last.candidates # <<>> /\ parts # <<>>
                  THEN IF _all_function_call_parts(parts)
                       THEN phase' = "structured" /\ error' = ""
                       ELSE IF _all_text_parts(parts)
                       THEN phase' = "text" /\ error' = ""
                       ELSE phase' = "failed" /\ error' = "UnexpectedModelBehavior"
                  ELSE phase' = "priming" /\ error' = ""

(***************************************************************************)
(* GeminiStreamTextResponse.__anext__ and                                  *)
(* GeminiStreamStructuredResponse.__anext__.                               *)
(***************************************************************************)
\* An __anext__ that puts the new chunk in front of the buffer.
GeminiExtend_prepends ==
    /\ signal \in {"none", "ok"}
    /\ gets' = <<>>
    /\ error' = ""
    /\ IF sent = Len(_stream)
       THEN /\ signal' = "end"
            /\ UNCHANGED <<sent, _json_content>>
       ELSE \E n \in 1..(Len(_stream) - sent) :
            /\ signal' = "ok"
            /\ sent' = sent + n
            /\ _json_content' = SubSeq(_stream, sent + 1, sent + n) \o _json_content
    /\ UNCHANGED <<provider, phase, _cost, _stream, wire, _position, reported,
                   out, lastText, lastResponse>>
    /\ UNCHANGED oaVars
    /\ UNCHANGED callVars
    /\ UNCHANGED pureVars

GeminiExtend ==
    /\ signal \in {"none", "ok"}
    /\ gets' = <<>>
    /\ error' = ""
    /\ IF sent = Len(_stream)
       THEN \* StopAsyncIteration from the transport
            /\ signal' = "end"
            /\ UNCHANGED <<sent, _json_content>>
       ELSE \E n \in 1..(Len(_stream) - sent) :
            /\ signal' = "ok"
            /\ sent' = sent + n
            /\ _json_content' = _json_content \o SubSeq(_stream, sent + 1, sent + n)
    /\ UNCHANGED <<provider, phase, _cost, _stream, wire, _position, reported,
                   out, lastText, lastResponse>>
    /\ UNCHANGED oaVars
    /\ UNCHANGED callVars
    /\ UNCHANGED pureVars

GeminiStreamTextResponse_anext ==
    /\ provider = "gemini"
    /\ phase = "text"
    /\ GeminiExtend

GeminiStreamStructuredResponse_anext ==
    /\ provider = "gemini"
    /\ phase = "structured"
    /\ GeminiExtend

(***************************************************************************)
(* GeminiStreamTextResponse.get, consumed to its end.  TextLoop is its     *)
(* for loop over new_responses: the cost added, the fragments yielded,     *)
(* the number of responses taken up and the exception that ended it.       *)
(***************************************************************************)
RECURSIVE Texts(_)
Texts(parts) ==
    IF parts = <<>> THEN <<>> ELSE <<Head(parts).text>> \o Texts(Tail(parts))

\* A loop that yields the text parts of an element it fails on.
RECURSIVE TextLoop_part_by_part(_, _)
TextLoop_part_by_part(acc, rs) ==
    IF rs = <<>> \/ acc.error # "" THEN acc
    ELSE LET r == Head(rs)
             added == [acc EXCEPT !.cost = CostAdd(@, _metadata_as_cost(r)),
                                  !.taken = @ + 1]
             parts == r.candidates[1].content.parts
             texts == Texts(SelectSeq(parts, LAMBDA part : "text" \in DOMAIN part))
         IN TextLoop_part_by_part(
                IF _all_text_parts(parts)
                THEN [added EXCEPT !.yielded = @ \o texts]
                ELSE [added EXCEPT !.yielded = @ \o texts,
                                   !.error = "UnexpectedModelBehavior"],
                Tail(rs))

RECURSIVE TextLoop(_, _)
TextLoop(acc, rs) ==
    IF rs = <<>> \/ acc.error # "" THEN acc
    ELSE LET r == Head(rs)
             added == [acc EXCEPT !.cost = CostAdd(@, _metadata_as_cost(r)),
                                  !.taken = @ + 1]
             parts == r.candidates[1].content.parts
         IN TextLoop(IF _all_text_parts(parts)
                     THEN [added EXCEPT !.yielded = @ \o Texts(parts)]
                     ELSE [added EXCEPT !.error = "UnexpectedModelBehavior"],
                     Tail(rs))

\* A get that never moves its position.
TextGetPosition_unmoved(all_items, final) == _position

TextGetPosition(all_items, final) == IF final THEN Len(all_items) ELSE Len(all_items) - 1

\* A get that moves its position to the elements a partial parse finds
\* before the parse of the whole buffer fails.
PositionAfterParseError_moved(final) == Len(from_json(_json_content, "on").value)

\* pydantic_core.from_json raises before self._position is assigned.
PositionAfterParseError(final) == _position

GeminiStreamTextResponse_get(final) ==
    /\ provider = "gemini"
    /\ phase = "text"
    /\ Len(reported) < Len(wire) + MaxRepeats
    /\ gets' = Noted(final)
    /\ UNCHANGED <<provider, phase, signal, _stream, wire, sent, _json_content,
                   lastResponse>>
    /\ UNCHANGED oaVars
    /\ UNCHANGED callVars
    /\ UNCHANGED pureVars
    /\ LET all_items == from_json(_json_content, IF final THEN "off" ELSE "on")
           new_items == PySlice(all_items.value, _position,
                                IF final THEN None ELSE Some(0 - 1))
           new_responses == validate_python(new_items,
                                            IF final THEN "off" ELSE "trailing-strings")
           start == PyIndex(Len(all_items.value), _position)
           loop == TextLoop([cost |-> _cost, yielded |-> <<>>, taken |-> 0, error |-> ""],
                            new_responses.value)
       IN IF ~all_items.ok
          THEN /\ error' = "ValueError"
               /\ lastText' = <<>>
               /\ _position' = PositionAfterParseError(final)
               /\ UNCHANGED <<_cost, reported, out>>
          ELSE /\ _position' = TextGetPosition(all_items.value, final)
               /\ IF ~new_responses.ok
                  THEN /\ error' = "ValidationError"
                       /\ lastText' = <<>>
                       /\ UNCHANGED <<_cost, reported, out>>
                  ELSE /\ error' = loop.error
                       /\ _cost' = loop.cost
                       /\ lastText' = loop.yielded
                       /\ out' = out \o loop.yielded
                       /\ reported' = reported \o [i \in 1..loop.taken |-> start + i]

(***************************************************************************)
(* GeminiStreamStructuredResponse.get.  StructuredLoop is its for loop     *)
(* over responses.                                                         *)
(***************************************************************************)
\* A loop that keeps the parts of the last response only.
StructuredLoop_last(acc, rs) ==
    IF rs = <<>> THEN acc
    ELSE [cost |-> CostSum([i \in 1..Len(rs) |-> _metadata_as_cost(rs[i])]),
          combined_parts |-> Last(rs).candidates[1].content.parts,
          taken |-> Len(rs)]

RECURSIVE StructuredLoop(_, _)
StructuredLoop(acc, rs) ==
    IF rs = <<>> THEN acc
    ELSE LET r == Head(rs)
             candidate == r.candidates[1]
         IN StructuredLoop([cost |-> CostAdd(acc.cost, _metadata_as_cost(r)),
                            combined_parts |-> acc.combined_parts \o candidate.content.parts,
                            taken |-> acc.taken + 1],
                           Tail(rs))

GeminiStreamStructuredResponse_get(final) ==
    /\ provider = "gemini"
    /\ phase = "structured"
    /\ gets' = Noted(final)
    /\ UNCHANGED <<provider, phase, signal, _stream, wire, sent, _json_content,
                   _position, out, lastText>>
    /\ UNCHANGED oaVars
    /\ UNCHANGED callVars
    /\ UNCHANGED pureVars
    /\ LET responses == validate_json(_json_content,
                                      IF final THEN "off" ELSE "trailing-strings")
           loop == StructuredLoop([cost |-> ZeroCost, combined_parts |-> <<>>,
                                   taken |-> 0], responses.value)
       IN IF ~responses.ok
          THEN /\ error' = "ValidationError"
               /\ UNCHANGED <<_cost, reported, lastResponse>>
          ELSE /\ _cost' = loop.cost
               /\ reported' = [i \in 1..loop.taken |-> i]
               /\ IF HasFunctionResponse(loop.combined_parts)
                  THEN error' = "UnexpectedModelBehavior" /\ UNCHANGED lastResponse
                  ELSE /\ error' = ""
                       /\ lastResponse' = _process_response_from_parts(loop.combined_parts)

(***************************************************************************)
(* The exchange.                                                           *)
(***************************************************************************)
Init ==
    /\ provider \in {"openai", "gemini"}
    /\ phase = "priming"
    /\ signal = "none"
    /\ error = ""
    /\ _cost = ZeroCost
    /\ IF provider = "openai"
       THEN /\ _response \in OpenAIStreams
            /\ wire = <<>>
            /\ _stream = <<>>
       ELSE /\ _response = <<>>
            /\ wire \in SeqsUpTo(GeminiElements, MaxElems)
            /\ _stream = dump_json(wire)
    /\ consumed = 0
    /\ _first = None
    /\ _buffer = <<>>
    /\ _delta_tool_calls = <<>>
    /\ sent = 0
    /\ _json_content = <<>>
    /\ _position = 0
    /\ out = <<>>
    /\ reported = <<>>
    /\ lastText = <<>>
    /\ lastResponse = <<>>
    /\ gets = <<>>
    /\ received = None
    /\ returned = None
    /\ messages = <<>>
    /\ tools = <<>>
    /\ allow_text_result = TRUE
    /\ model_settings = None
    /\ request_data = None
    /\ parameters_json_schema = None
    /\ simplified = None
    /\ argument = None
    /\ value = None
    /\ log = <<>>
    /\ accumulators = <<>>

Next ==
    \/ OpenAIPrime
    \/ OpenAIStreamTextResponse_anext
    \/ \E final \in BOOLEAN : OpenAIStreamTextResponse_get(final)
    \/ OpenAIStreamStructuredResponse_anext
    \/ \E final \in BOOLEAN : OpenAIStreamStructuredResponse_get(final)
    \/ GeminiPrime
    \/ GeminiStreamTextResponse_anext
    \/ \E final \in BOOLEAN : GeminiStreamTextResponse_get(final)
    \/ GeminiStreamStructuredResponse_anext
    \/ \E final \in BOOLEAN : GeminiStreamStructuredResponse_get(final)

Spec == Init /\ [][Next]_vars

(***************************************************************************)
(* What a stream carries, read off the chunks themselves.                  *)
(***************************************************************************)
Delivered == SubSeq(_response, 1, consumed)

RECURSIVE ContentDeltas(_)
ContentDeltas(chunks) ==
    IF chunks = <<>> THEN <<>>
    ELSE LET c == Last(chunks)
         IN ContentDeltas(Front(chunks))
            \o (IF c.choices # <<>> /\ c.choices[1].delta.content # None
                THEN c.choices[1].delta.content
                ELSE <<>>)

RECURSIVE Fragments(_)
Fragments(chunks) ==
    IF chunks = <<>> THEN <<>>
    ELSE LET c == Last(chunks)
         IN Fragments(Front(chunks))
            \o (IF c.choices # <<>> /\ c.choices[1].delta.tool_calls # None
                THEN c.choices[1].delta.tool_calls[1]
                ELSE <<>>)

\* The strings of one field of the fragments of one index, joined in order;
\* None when no fragment carries the field.
RECURSIVE Joined(_, _, _)
Joined(frags, index, field) ==
    IF frags = <<>> THEN None
    ELSE LET f == Last(frags)
             before == Joined(Front(frags), index, field)
             mine == IF f.index = index /\ f.function # None
                     THEN (IF field = "name" THEN f.function[1].name
                           ELSE f.function[1].arguments)
                     ELSE None
         IN IF mine = None THEN before
            ELSE IF before = None THEN mine
            ELSE Some(before[1] \o mine[1])

FieldOf(call, field) ==
    IF call.function = None THEN None
    ELSE IF field = "name" THEN call.function[1].name
    ELSE call.function[1].arguments

Pending == IF _first = None THEN <<>> ELSE _first

(***************************************************************************)
(* C1.  OpenAI text stream: over any interleaving of __anext__ and get,    *)
(* the fragments get has returned, followed by those folded and not yet    *)
(* returned, are exactly the content deltas of the chunks consumed so far, *)
(* the delta that classified the stream included, each once and in         *)
(* arrival order.  So every get returns exactly the deltas folded since    *)
(* the previous one, and "Hello" then " world" come back as "Hello" then   *)
(* " world".                                                               *)
(***************************************************************************)
C1_TextFragmentsAreTheDeltas ==
    (provider = "openai" /\ phase = "text")
        => /\ out \o _buffer \o Pending = ContentDeltas(Delivered)
           /\ lastText = SubSeq(out, Len(out) - Len(lastText) + 1, Len(out))
           /\ (_first # None => out = <<>> /\ _buffer = <<>>)

C1_Witness_HelloWorld ==
    /\ provider = "openai"
    /\ phase = "text"
    /\ out = <<"Hello", " world">>
    /\ lastText = <<" world">>
    /\ _buffer = <<>>
    /\ consumed = Len(_response)

(***************************************************************************)
(* C2.  OpenAI structured stream: for every index carried by a fragment    *)
(* consumed so far there is one accumulated tool call, and its name and    *)
(* its arguments are the concatenation, in arrival order, of the           *)
(* fragments' names and arguments for that index, a missing field          *)
(* contributing nothing.                                                   *)
(***************************************************************************)
C2_FragmentsMergedByIndex ==
    (provider = "openai" /\ phase = "structured")
        => LET frags == Fragments(Delivered)
           IN \A n \in 1..Len(frags) :
                 LET index == frags[n].index
                 IN /\ DictHas(_delta_tool_calls, index)
                    /\ \A field \in {"name", "arguments"} :
                          FieldOf(DictGet(_delta_tool_calls, index), field)
                              = Joined(frags, index, field)

\* The stream whose first chunk carries both fragments of index 0 has been
\* classified, and get returned no tool call.
C2_Witness_SameChunk ==
    /\ provider = "openai"
    /\ phase = "structured"
    /\ _response = <<ToolChunk(<<FragName0, FragArgs0>>)>>
    /\ signal = "end"
    /\ lastResponse = <<>>
    /\ StructuredItems(_delta_tool_calls) = <<>>

(***************************************************************************)
(* C3.  OpenAI stream driven with __anext__ until it signals the end of    *)
(* the stream: cost() is the sum of the usage of every chunk of the        *)
(* stream, those consumed in priming and a usage-only chunk after the      *)
(* finish-reason chunk included, for the text and for the structured       *)
(* accumulator.                                                            *)
(***************************************************************************)
StreamCost == CostSum([n \in 1..Len(_response) |-> _map_cost(_response[n])])

C3_CostSumsEveryChunk ==
    (provider = "openai" /\ phase \in {"text", "structured"} /\ signal = "end")
        => _cost = StreamCost

C3_Witness_UsageAfterFinish ==
    /\ provider = "openai"
    /\ phase = "structured"
    /\ signal = "end"
    /\ _response = <<ToolChunk(<<FragName0>>), FinishChunk, UsageChunk>>
    /\ consumed = 2
    /\ _cost = ZeroCost

\* The text accumulator does count the usage-only chunk.
C3_TextCostSumsEveryChunk ==
    (provider = "openai" /\ phase = "text" /\ signal = "end") => _cost = StreamCost

\* The chunk that classified a structured stream: the first to carry
\* tool-call fragments.
Classifier ==
    CHOOSE n \in 1..consumed :
        /\ Fragments(<<_response[n]>>) # <<>>
        /\ \A m \in 1..(n - 1) : Fragments(<<_response[m]>>) = <<>>

\* Outside the chunk that classified the stream the merge is as stated: C2
\* holds of every stream whose classifying chunk names each index once.
C2_MergedAfterClassification ==
    (/\ provider = "openai"
     /\ phase = "structured"
     /\ LET frags == Fragments(<<_response[Classifier]>>)
        IN \A i, j \in 1..Len(frags) : i # j => frags[i].index # frags[j].index)
        => C2_FragmentsMergedByIndex

(***************************************************************************)
(* The elements of a Gemini stream, read off the wire.                     *)
(***************************************************************************)
RECURSIVE WireTexts(_)
WireTexts(parts) ==
    IF parts = <<>> THEN <<>>
    ELSE <<Head(parts).text[1] \o Head(parts).text[2]>> \o WireTexts(Tail(parts))

WireIsText(e) == \A i \in 1..Len(e.parts) : "text" \in DOMAIN e.parts[i]

\* The tokens of _stream that end each element of the wire.
RECURSIVE ClosedBy(_)
ClosedBy(n) == IF n = 0 THEN 1 ELSE ClosedBy(n - 1) + Len(ElementTokens(wire[n]))

\* Number of elements whose first bytes have been delivered.
Opened == Cardinality({n \in 1..Len(wire) : sent > ClosedBy(n - 1)})
Complete(n) == sent >= ClosedBy(n)

RECURSIVE UsageOver(_, _)
UsageOver(n, counted) ==
    IF n = 0 THEN ZeroCost
    ELSE CostAdd(UsageOver(n - 1, counted),
                 IF n \in counted THEN _metadata_as_cost(wire[n]) ELSE ZeroCost)

Range(s) == {s[i] : i \in 1..Len(s)}

(***************************************************************************)
(* C4 as stated.  Text accumulators of both providers: when get is called  *)
(* twice with no __anext__ in between, the second call yields no           *)
(* fragments.                                                              *)
(***************************************************************************)
C4_SecondGetYieldsNothing ==
    (phase = "text" /\ Len(gets) = 2) => lastText = <<>>

(***************************************************************************)
(* C4 as the code has it.  Text accumulators of both providers: when get   *)
(* is called twice with no __anext__ in between, the second call yields    *)
(* no fragments if the accumulator is OpenAI's or both calls passed the    *)
(* same final flag.  A Gemini get(final=True) that follows a               *)
(* get(final=False) yields the last element, which the non-final call      *)
(* held back.                                                              *)
(***************************************************************************)
C4_SecondGetSameFinalYieldsNothing ==
    (phase = "text" /\ Len(gets) = 2 /\ (provider = "openai" \/ gets[1] = gets[2]))
        => lastText = <<>>

C4_Witness_TwiceFinal ==
    /\ provider = "gemini"
    /\ phase = "text"
    /\ gets = <<TRUE, TRUE>>
    /\ Len(reported) = Len(wire)
    /\ out # <<>>
    /\ error = ""
    /\ lastText = <<>>

(***************************************************************************)
(* C5.  Gemini text stream: a get(final=False) on a buffer holding one     *)
(* complete element followed by a partial second element returns exactly   *)
(* the first element's text; and over any sequence of __anext__ and get    *)
(* calls no top-level element is reported twice.                           *)
(***************************************************************************)
C5_FirstElementOfTruncatedArray ==
    (/\ provider = "gemini"
     /\ phase = "text"
     /\ Len(wire) >= 2
     /\ WireIsText(wire[1])
     /\ Opened = 2
     /\ ~Complete(2)
     /\ gets = <<FALSE>>
     /\ out = lastText)
        => lastText = WireTexts(wire[1].parts)

C5_NoElementReportedTwice ==
    /\ C5_FirstElementOfTruncatedArray
    /\ (provider = "gemini" /\ phase = "text")
          => \A i, j \in 1..Len(reported) : i # j => reported[i] # reported[j]

C5_Witness_ReportedAgain ==
    /\ provider = "gemini"
    /\ phase = "text"
    /\ wire = <<_GeminiResponse(<<PartHello>>, Some(MetaA))>>
    /\ reported = <<1, 1>>
    /\ out = <<"Hello", "Hello">>
    /\ gets = <<FALSE, TRUE>>

(***************************************************************************)
(* C6.  Gemini structured stream: a get(final=True) on the complete array  *)
(* returns a ModelResponse whose parts are the parts of every top-level    *)
(* element, concatenated in array order, each function-call part as one    *)
(* ToolCallPart; and cost() is then the sum of the usage of all elements.  *)
(***************************************************************************)
RECURSIVE WireParts(_)
WireParts(es) == IF es = <<>> THEN <<>> ELSE Head(es).parts \o WireParts(Tail(es))

CanonicalPart(p) ==
    IF "text" \in DOMAIN p THEN TextPart(p.text[1] \o p.text[2])
    ELSE ToolCallPart_from_dict(p.function_call.name, p.function_call.args)

FinalGetReturned ==
    /\ provider = "gemini"
    /\ gets # <<>>
    /\ Last(gets) = TRUE
    /\ error = ""

C6_FinalStructuredMergesAllElements ==
    (FinalGetReturned /\ phase = "structured")
        => /\ sent = Len(_stream)
           /\ lastResponse = [i \in 1..Len(WireParts(wire)) |->
                                 CanonicalPart(WireParts(wire)[i])]
           /\ _cost = UsageOver(Len(wire), 1..Len(wire))

C6_Witness_TwoElementsMerged ==
    /\ FinalGetReturned
    /\ phase = "structured"
    /\ wire = <<_GeminiResponse(<<PartCallF>>, Some(MetaB)),
                _GeminiResponse(<<PartCallG, PartCallF>>, Some(MetaA))>>
    /\ Len(lastResponse) = 3
    /\ _cost.total_tokens = 5

(***************************************************************************)
(* C7.  Both Gemini accumulators: after any sequence of __anext__ and get  *)
(* calls cost() is the sum of the usage of the distinct top-level elements *)
(* materialized so far, each counted once.  (The structured accumulator    *)
(* reads the last element as far as it has arrived: its usage counts once  *)
(* it is in the buffer.)                                                   *)
(***************************************************************************)
C7_StructuredCostCountsEachElementOnce ==
    (provider = "gemini" /\ phase = "structured")
        => LET k == Len(reported)
           IN _cost \in {UsageOver(k, 1..k), UsageOver(k, 1..(k - 1))}

C7_CostCountsEachElementOnce ==
    /\ C7_StructuredCostCountsEachElementOnce
    /\ (provider = "gemini" /\ phase = "text")
          => _cost = UsageOver(Len(wire), Range(reported))

C7_Witness_CountedTwice ==
    /\ provider = "gemini"
    /\ phase = "text"
    /\ wire = <<_GeminiResponse(<<PartHello>>, Some(MetaA))>>
    /\ reported = <<1, 1>>
    /\ _cost = CostAdd(_metadata_as_cost(wire[1]), _metadata_as_cost(wire[1]))

(***************************************************************************)
(* C8.  Both Gemini accumulators: get(final=True) parses strictly.  On a   *)
(* buffer that is not yet the complete array the call fails: it returns    *)
(* no fragment and no response, and leaves cost and position as they were. *)
(***************************************************************************)
C8_FinalGetIsStrict ==
    [][(/\ provider = "gemini"
        /\ phase \in {"text", "structured"}
        /\ UNCHANGED <<phase, sent, signal>>
        /\ gets' # <<>>
        /\ Last(gets') = TRUE
        /\ sent < Len(_stream))
          => /\ error' \in {"ValueError", "ValidationError"}
             /\ lastText' = <<>>
             /\ UNCHANGED <<out, lastResponse, _cost, _position, reported>>]_vars

C8_Witness_CutInsideElement ==
    /\ provider = "gemini"
    /\ phase = "text"
    /\ gets # <<>>
    /\ Last(gets) = TRUE
    /\ Opened = 2
    /\ ~Complete(2)
    /\ error = "ValueError"
    /\ out = <<>>

(***************************************************************************)
(* C9.  Both providers: a stream that ends during priming, before any      *)
(* text or tool-call fragment has arrived, makes request_stream fail with  *)
(* UnexpectedModelBehavior; an accumulator exists only for a stream in     *)
(* which such a fragment has arrived.                                      *)
(***************************************************************************)
Exhausted ==
    IF provider = "openai" THEN consumed = Len(_response) ELSE sent = Len(_stream)

FragmentArrived ==
    IF provider = "openai"
    THEN ContentDeltas(Delivered) # <<>> \/ Fragments(Delivered) # <<>>
    ELSE \E k \in 1..sent : _stream[k].t \in {"str", "call", "resp"}

C9_PrimingFailsOnUnclassifiedStream ==
    /\ [][(phase = "priming" /\ Exhausted)
             => (phase' = "failed" /\ error' = "UnexpectedModelBehavior")]_vars
    /\ [](phase \in {"text", "structured"} => FragmentArrived)
    /\ []((phase = "priming" /\ provider = "openai") => ~FragmentArrived)

C9_Witness_EndedWithoutContent ==
    /\ provider = "gemini"
    /\ phase = "failed"
    /\ error = "UnexpectedModelBehavior"
    /\ wire # <<>>
    /\ sent = Len(_stream)
    /\ ~FragmentArrived

(***************************************************************************)
(* C10.  Chunks are folded in arrival order.  The byte buffer of a Gemini  *)
(* accumulator is the concatenation, in arrival order, of exactly the      *)
(* chunks delivered so far, those of priming included.  The tool calls of  *)
(* an OpenAI structured accumulator are the fragments of the classifying   *)
(* chunk with the fragments of every later chunk applied one by one in     *)
(* arrival order; none is skipped, duplicated or reordered.                *)
(***************************************************************************)
C10_FoldedInArrivalOrder ==
    /\ provider = "gemini" => _json_content = SubSeq(_stream, 1, sent)
    /\ (provider = "openai" /\ phase = "structured")
          => _delta_tool_calls =
                MergeToolCalls(DictOf(Fragments(<<_response[Classifier]>>)),
                               Fragments(SubSeq(_response, Classifier + 1, consumed)))

C10_Witness_SplitAcrossChunks ==
    /\ provider = "gemini"
    /\ phase = "structured"
    /\ signal = "ok"
    /\ Len(wire) = 2
    /\ Opened = 2
    /\ ~Complete(2)
    /\ Len(_json_content) = sent

(***************************************************************************)
(* A request that is not streamed.  The stream variables take no part in   *)
(* it.                                                                     *)
(***************************************************************************)
streamVars == <<phase, signal, error, _cost, oaVars, gVars, out, lastText, lastResponse, gets>>

NoStream ==
    /\ phase = "none"
    /\ signal = "none"
    /\ error = ""
    /\ _cost = ZeroCost
    /\ _response = <<>>
    /\ consumed = 0
    /\ _first = None
    /\ _buffer = <<>>
    /\ _delta_tool_calls = <<>>
    /\ _stream = <<>>
    /\ wire = <<>>
    /\ sent = 0
    /\ _json_content = <<>>
    /\ _position = 0
    /\ out = <<>>
    /\ reported = <<>>
    /\ lastText = <<>>
    /\ lastResponse = <<>>
    /\ gets = <<>>

\* No function is under check, no transport, no accumulators side by side.
NoPure ==
    /\ argument = None
    /\ value = None
    /\ log = <<>>
    /\ accumulators = <<>>

MaxCandidates == 2      \* choices of a ChatCompletion, candidates of a Gemini response
MaxParts == 2           \* parts of a candidate, tool calls of a choice

\* A call ends by returning a value or by raising.
ModelResponse(parts) ==
    [message_kind |-> "model-response", role |-> "model", parts |-> parts]
Raised(kind) == [raised |-> kind]
HasRaised(r) == r # None /\ "raised" \in DOMAIN r[1]
HasReturned(r) == r # None /\ "parts" \in DOMAIN r[1]

(***************************************************************************)
(* The wire responses: chat.ChatCompletion, and _GeminiResponse with its   *)
(* candidates, as pydantic hands them over once validated.                 *)
(***************************************************************************)
ChatCompletionMessageToolCall(id, name, arguments) ==
    [id |-> id, function |-> [name |-> name, arguments |-> arguments]]
ChatCompletionMessage(content, tool_calls) == [content |-> content, tool_calls |-> tool_calls]
ChatCompletion(choices) == [choices |-> choices]

CallF == ChatCompletionMessageToolCall("c1", "f", "{x}")
CallG == ChatCompletionMessageToolCall("c2", "g", "{}")

OpenAIChoices ==
    {[message |-> ChatCompletionMessage(c, t)] :
        c \in {None, Some("Hello")},
        t \in {None} \cup {Some(q) : q \in SeqsUpTo({CallF, CallG}, MaxParts)}}

ChatCompletions == {ChatCompletion(cs) : cs \in SeqsUpTo(OpenAIChoices, MaxCandidates)}

_GeminiContent(role, parts) == [role |-> role, parts |-> parts]
_GeminiCandidates(content) == [content |-> content]

GeminiCandidates ==
    {_GeminiCandidates(_GeminiContent("model", ps)) :
        ps \in SeqsUpTo({PartHello, PartCallF, PartResp}, MaxParts)}

GeminiResponses == {[candidates |-> cs] : cs \in SeqsUpTo(GeminiCandidates, MaxCandidates)}

(***************************************************************************)
(* OpenAIAgentModel._process_response.                                     *)
(***************************************************************************)
OpenAIItems(choice) ==
    (IF choice.message.content # None
     THEN <<TextPart(choice.message.content[1])>> ELSE <<>>)
    \o
    (IF choice.message.tool_calls # None
     THEN LET calls == choice.message.tool_calls[1]
          IN [i \in 1..Len(calls) |->
                 ToolCallPart_from_json(calls[i].function.name,
                                        calls[i].function.arguments, Some(calls[i].id))]
     ELSE <<>>)

OpenAIAgentModel_process_response ==
    /\ provider = "openai"
    /\ returned = None
    /\ returned' =
          IF Len(received.choices) = 0 THEN Some(Raised("IndexError"))
          ELSE Some(ModelResponse(OpenAIItems(received.choices[1])))
    /\ UNCHANGED <<provider, received, messages, tools, allow_text_result, model_settings,
                   request_data, parameters_json_schema, simplified>>
    /\ UNCHANGED streamVars
    /\ UNCHANGED pureVars

(***************************************************************************)
(* GeminiAgentModel._process_response.                                     *)
(***************************************************************************)
GeminiAgentModel_process_response ==
    /\ provider = "gemini"
    /\ returned = None
    /\ returned' =
          IF Len(received.candidates) # 1 THEN Some(Raised("UnexpectedModelBehavior"))
          ELSE LET parts == received.candidates[1].content.parts
               IN IF HasFunctionResponse(parts)
                  THEN Some(Raised("UnexpectedModelBehavior"))
                  ELSE Some(ModelResponse(_process_response_from_parts(parts)))
    /\ UNCHANGED <<provider, received, messages, tools, allow_text_result, model_settings,
                   request_data, parameters_json_schema, simplified>>
    /\ UNCHANGED streamVars
    /\ UNCHANGED pureVars

InitResponse ==
    /\ provider \in {"openai", "gemini"}
    /\ received \in (IF provider = "openai" THEN ChatCompletions ELSE GeminiResponses)
    /\ returned = None
    /\ messages = <<>>
    /\ tools = <<>>
    /\ allow_text_result = TRUE
    /\ model_settings = None
    /\ request_data = None
    /\ parameters_json_schema = None
    /\ simplified = None
    /\ NoStream
    /\ NoPure

NextResponse ==
    \/ OpenAIAgentModel_process_response
    \/ GeminiAgentModel_process_response

SpecResponse == InitResponse /\ [][NextResponse]_vars

\* The choices or candidates at the top level of the wire response.
TopLevel == IF provider = "openai" THEN received.choices ELSE received.candidates

(***************************************************************************)
(* C11.  Both providers' reconstructors accept a wire response only when   *)
(* it has exactly one top-level choice or candidate: with any other count  *)
(* the call raises UnexpectedModelBehavior, and a response of several is   *)
(* never cut down to its first.                                            *)
(***************************************************************************)
C11_ExactlyOneCandidateOrChoice ==
    (returned # None /\ Len(TopLevel) # 1)
        => returned = Some(Raised("UnexpectedModelBehavior"))

C11_Witness_SecondChoiceDropped ==
    /\ provider = "openai"
    /\ Len(received.choices) = 2
    /\ received.choices[1].message.content = Some("Hello")
    /\ received.choices[2].message.tool_calls = Some(<<CallF>>)
    /\ returned = Some(ModelResponse(<<TextPart("Hello")>>))

(***************************************************************************)
(* C12.  The ModelResponse a completed non-streamed call returns has at    *)
(* least one part: when the wire response yields no part the               *)
(* reconstruction fails instead of returning.                              *)
(***************************************************************************)
C12_ReturnedResponseHasParts ==
    HasReturned(returned) => returned[1].parts # <<>>

C12_Witness_NoContentNoToolCalls ==
    /\ provider = "openai"
    /\ Len(received.choices) = 1
    /\ received.choices[1].message = ChatCompletionMessage(None, None)
    /\ returned = Some(ModelResponse(<<>>))

\* The response part p says what the wire part w says.
Corresponds(w, p) ==
    IF "text" \in DOMAIN w
    THEN p.part_kind = "text" /\ p.content = w.text
    ELSE /\ p.part_kind = "tool-call"
         /\ p.tool_name = w.function_call.name
         /\ p.args = [args_dict |-> w.function_call.args]

(***************************************************************************)
(* C13.  The Gemini reconstructor maps each wire part of the candidate to  *)
(* exactly one response part, in order: a text part to a text part, a      *)
(* function call to a tool call.  A function-response part anywhere in a   *)
(* model response makes the call fail with UnexpectedModelBehavior.        *)
(***************************************************************************)
C13_EachWirePartOnePartInOrder ==
    (provider = "gemini" /\ returned # None /\ Len(received.candidates) = 1)
        => LET parts == received.candidates[1].content.parts
           IN IF \E i \in 1..Len(parts) : "function_response" \in DOMAIN parts[i]
              THEN returned = Some(Raised("UnexpectedModelBehavior"))
              ELSE /\ HasReturned(returned)
                   /\ Len(returned[1].parts) = Len(parts)
                   /\ \A i \in 1..Len(parts) : Corresponds(parts[i], returned[1].parts[i])

C13_Witness_TextThenCall ==
    /\ provider = "gemini"
    /\ Len(received.candidates) = 1
    /\ received.candidates[1].content.parts = <<PartHello, PartCallF>>
    /\ HasReturned(returned)
    /\ Len(returned[1].parts) = 2

(***************************************************************************)
(* messages.py: the messages of a conversation.                            *)
(***************************************************************************)
SystemPrompt(content) ==
    [message_kind |-> "system-prompt", role |-> "user", content |-> content]
UserPrompt(content) ==
    [message_kind |-> "user-prompt", role |-> "user", content |-> content]
ToolReturn(tool_name, content, tool_call_id) ==
    [message_kind |-> "tool-return", role |-> "user", tool_name |-> tool_name,
     content |-> content, tool_call_id |-> tool_call_id]
RetryPrompt(content, tool_name, tool_call_id) ==
    [message_kind |-> "retry-prompt", role |-> "user", content |-> content,
     tool_name |-> tool_name, tool_call_id |-> tool_call_id]

\* The Python values of a field typed Any or typed as a union: the value
\* under the name of its type.  A dict is the sequence of its <<key, value>> items.
PyStr(s) == [str |-> s]
PyList(items) == [list |-> items]
PyTuple(items) == [tuple |-> items]
PyDict(items) == [dict |-> items]

\* pydantic_core.ErrorDetails: loc is a tuple, ctx is not required.
ErrorDetails(type, loc, msg, input) ==
    [type |-> type, loc |-> loc, msg |-> msg, input |-> input]
ErrorDetailsWithCtx(type, loc, msg, input, ctx) ==
    [type |-> type, loc |-> loc, msg |-> msg, input |-> input, ctx |-> ctx]

\* JSON values; an object is the sequence of its <<key, value>> members.
JsonNull == [null |-> TRUE]
JsonString(s) == [string |-> s]
JsonArray(items) == [array |-> items]
JsonObject(members) == [object |-> members]

RECURSIVE Join(_, _)
Join(sep, texts) ==
    IF Len(texts) = 1 THEN texts[1] ELSE texts[1] \o sep \o Join(sep, Tail(texts))

RECURSIVE Pad(_)
Pad(n) == IF n = 0 THEN "" ELSE " " \o Pad(n - 1)

\* The text of a JSON value: compact when indent is None, else every item
\* and member on a line of its own.
RECURSIVE JsonText(_, _, _)
JsonText(j, indent, level) ==
    LET line(l) == IF indent = None THEN "" ELSE "\n" \o Pad(indent[1] * l)
        colon == IF indent = None THEN ":" ELSE ": "
        within(open, texts, close) ==
            IF texts = <<>> THEN open \o close
            ELSE open \o line(level + 1) \o Join("," \o line(level + 1), texts)
                      \o line(level) \o close
    IN CASE "null" \in DOMAIN j -> "null"
         [] "string" \in DOMAIN j -> "\"" \o j.string \o "\""
         [] "array" \in DOMAIN j
               -> within("[", [i \in 1..Len(j.array) |->
                                   JsonText(j.array[i], indent, level + 1)], "]")
         [] "object" \in DOMAIN j
               -> within("{", [i \in 1..Len(j.object) |->
                                   "\"" \o j.object[i][1] \o "\"" \o colon
                                        \o JsonText(j.object[i][2], indent, level + 1)], "}")

\* The JSON value of a Python value typed Any: a tuple becomes an array, as
\* a list does.
RECURSIVE to_json(_)
to_json(value_) ==
    CASE "str" \in DOMAIN value_ -> JsonString(value_.str)
      [] "list" \in DOMAIN value_
            -> JsonArray([i \in 1..Len(value_.list) |-> to_json(value_.list[i])])
      [] "tuple" \in DOMAIN value_
            -> JsonArray([i \in 1..Len(value_.tuple) |-> to_json(value_.tuple[i])])
      [] "dict" \in DOMAIN value_
            -> JsonObject([i \in 1..Len(value_.dict) |->
                               <<value_.dict[i][1], to_json(value_.dict[i][2])>>])

\* dump_python(mode='json') of a value typed Any: the Python value of the
\* JSON value.
RECURSIVE to_jsonable_python(_)
to_jsonable_python(value_) ==
    CASE "str" \in DOMAIN value_ -> value_
      [] "list" \in DOMAIN value_
            -> PyList([i \in 1..Len(value_.list) |-> to_jsonable_python(value_.list[i])])
      [] "tuple" \in DOMAIN value_
            -> PyList([i \in 1..Len(value_.tuple) |-> to_jsonable_python(value_.tuple[i])])
      [] "dict" \in DOMAIN value_
            -> PyDict([i \in 1..Len(value_.dict) |->
                           <<value_.dict[i][1], to_jsonable_python(value_.dict[i][2])>>])

\* ErrorDetailsTa's JSON value of a list of error details, without the
\* excluded fields.
ErrorDetailsJson(e, exclude) ==
    JsonObject(<<<<"type", JsonString(e.type)>>,
                 <<"loc", JsonArray([i \in 1..Len(e.loc) |-> JsonString(e.loc[i])])>>,
                 <<"msg", JsonString(e.msg)>>,
                 <<"input", to_json(e.input)>>>>
               \o (IF "ctx" \in DOMAIN e /\ "ctx" \notin exclude
                   THEN <<<<"ctx", to_json(e.ctx)>>>> ELSE <<>>))
ErrorDetailsTa_dump(errors, exclude) ==
    JsonArray([i \in 1..Len(errors) |-> ErrorDetailsJson(errors[i], exclude)])

\* ToolReturn.model_response_str, ToolReturn.model_response_object and
\* RetryPrompt.model_response.
model_response_str(m) ==
    IF "str" \in DOMAIN m.content THEN m.content.str
    ELSE JsonText(to_json(m.content), None, 0)
model_response_object(m) ==
    IF "dict" \in DOMAIN m.content THEN to_jsonable_python(m.content)
    ELSE [return_value |-> to_jsonable_python(m.content)]
model_response_keeping_ctx(m) ==
    LET description ==
            IF "str" \in DOMAIN m.content THEN m.content.str
            ELSE ToString(Len(m.content.list)) \o " validation errors: "
                     \o JsonText(ErrorDetailsTa_dump(m.content.list, {}), Some(2), 0)
    IN description \o "\n\nFix the errors and try again."
model_response(m) ==
    LET description ==
            IF "str" \in DOMAIN m.content THEN m.content.str
            ELSE ToString(Len(m.content.list)) \o " validation errors: "
                     \o JsonText(ErrorDetailsTa_dump(m.content.list, {"ctx"}), Some(2), 0)
    IN description \o "\n\nFix the errors and try again."

MaxMessages == 2        \* messages of a conversation

Messages ==
    {SystemPrompt("sys"),
     UserPrompt("hi"),
     ToolReturn("f", PyStr("done"), Some("c1")),
     ToolReturn("f", PyStr("done"), None),
     RetryPrompt(PyStr("bad"), None, None),
     RetryPrompt(PyStr("bad"), Some("f"), Some("c1")),
     RetryPrompt(PyStr("bad"), Some("f"), None),
     ModelResponse(<<TextPart("a"), TextPart("b")>>),
     ModelResponse(<<TextPart("a"), ToolCallPart_from_json("f", "{x}", Some("c1"))>>),
     ModelResponse(<<ToolCallPart_from_json("f", "{x}", None)>>),
     ModelResponse(<<ToolCallPart_from_dict("f", "{x}")>>)}

\* The tools of an agent model: the function tools, then the result tools.
ToolLists == {<<>>, <<"f">>, <<"f", "final_result">>}

\* ModelSettings is a dict in which every key is optional.
SettingKeys == {"max_tokens", "temperature", "top_p"}
SettingValue(k) == IF k = "max_tokens" THEN 5 ELSE IF k = "temperature" THEN 0 ELSE 1
ModelSettings == {[k \in ks |-> SettingValue(k)] : ks \in SUBSET SettingKeys}

\* dict.get(key, default)
Get(d, k, default) == IF k \in DOMAIN d THEN Some(d[k]) ELSE default

\* A fallible step gives a value or raises.
Ok(v) == [ok |-> v]
IsRaised(x) == "raised" \in DOMAIN x

\* The values collected from the last step to the first.
RECURSIVE Collect_reversed(_)
Collect_reversed(steps) ==
    IF steps = <<>> THEN Ok(<<>>)
    ELSE IF IsRaised(Head(steps)) THEN Head(steps)
    ELSE LET rest == Collect_reversed(Tail(steps))
         IN IF IsRaised(rest) THEN rest ELSE Ok(rest.ok \o <<Head(steps).ok>>)

\* The outcomes of the steps in order: the first that raised, else all the values.
RECURSIVE Collect(_)
Collect(steps) ==
    IF steps = <<>> THEN Ok(<<>>)
    ELSE IF IsRaised(Head(steps)) THEN Head(steps)
    ELSE LET rest == Collect(Tail(steps))
         IN IF IsRaised(rest) THEN rest ELSE Ok(<<Head(steps).ok>> \o rest.ok)

(***************************************************************************)
(* openai.py: _guard_tool_call_id, _map_tool_call, _map_message and        *)
(* _completions_create.                                                    *)
(***************************************************************************)
\* A guard that lets a missing identifier through as an empty one.
_guard_tool_call_id_lenient(t) ==
    IF t.tool_call_id = None THEN Ok("") ELSE Ok(t.tool_call_id[1])

_guard_tool_call_id(t) ==
    IF t.tool_call_id = None THEN Raised("tool_call_id required") ELSE Ok(t.tool_call_id[1])

_map_tool_call(t) ==
    IF "args_json" \notin DOMAIN t.args THEN Raised("AssertionError")
    ELSE LET id == _guard_tool_call_id(t)
         IN IF IsRaised(id) THEN id
            ELSE Ok([id |-> id.ok, type |-> "function",
                     function |-> [name |-> t.tool_name, arguments |-> t.args.args_json]])

IsTextPart(item) == item.part_kind = "text"
IsToolCallPart(item) == item.part_kind = "tool-call"

_map_message(message) ==
    CASE message.message_kind = "system-prompt"
            -> Ok([role |-> "system", content |-> message.content])
      [] message.message_kind = "user-prompt"
            -> Ok([role |-> "user", content |-> message.content])
      [] message.message_kind = "tool-return"
            -> LET id == _guard_tool_call_id(message)
               IN IF IsRaised(id) THEN id
                  ELSE Ok([role |-> "tool", tool_call_id |-> Some(id.ok),
                           content |-> model_response_str(message)])
      [] message.message_kind = "retry-prompt"
            -> IF message.tool_name = None
               THEN Ok([role |-> "user", content |-> model_response(message)])
               ELSE LET id == _guard_tool_call_id(message)
                    IN IF IsRaised(id) THEN id
                       ELSE Ok([role |-> "tool", tool_call_id |-> Some(id.ok),
                                content |-> model_response(message)])
      [] message.message_kind = "model-response"
            -> LET texts == SelectSeq(message.parts, IsTextPart)
                   calls == SelectSeq(message.parts, IsToolCallPart)
                   tool_calls == Collect([i \in 1..Len(calls) |-> _map_tool_call(calls[i])])
               IN IF IsRaised(tool_calls) THEN tool_calls
                  ELSE Ok([role |-> "assistant",
                           content |-> IF texts # <<>>
                                       THEN Some(Join("\n\n", [i \in 1..Len(texts) |-> texts[i].content]))
                                       ELSE None,
                           tool_calls |-> IF tool_calls.ok # <<>> THEN Some(tool_calls.ok)
                                          ELSE None])

\* A tool choice that is only ever automatic.
OpenAIToolChoice_auto == IF tools = <<>> THEN None ELSE Some("auto")

OpenAIToolChoice ==
    IF tools = <<>> THEN None
    ELSE IF ~allow_text_result THEN Some("required")
    ELSE Some("auto")

\* Settings passed on as they are given, max_tokens left out.
OpenAISettings_drop(settings) ==
    [max_tokens |-> None,
     temperature |-> Get(settings, "temperature", None),
     top_p |-> Get(settings, "top_p", None)]

\* model_settings.get(key, NOT_GIVEN) of the three settings; NOT_GIVEN is None here.
OpenAISettings(settings) ==
    [max_tokens |-> Get(settings, "max_tokens", None),
     temperature |-> Get(settings, "temperature", None),
     top_p |-> Get(settings, "top_p", None)]

OpenAIAgentModel_completions_create ==
    /\ provider = "openai"
    /\ request_data = None
    /\ LET openai_messages == Collect([i \in 1..Len(messages) |-> _map_message(messages[i])])
           settings == IF model_settings = None THEN <<>> ELSE model_settings[1]
       IN request_data' =
             IF IsRaised(openai_messages) THEN Some(openai_messages)
             ELSE Some([messages |-> openai_messages.ok,
                        tools |-> IF tools # <<>> THEN Some(tools) ELSE None,
                        tool_choice |-> OpenAIToolChoice,
                        settings |-> OpenAISettings(settings)])
    /\ UNCHANGED <<provider, received, returned, messages, tools, allow_text_result,
                   model_settings, parameters_json_schema, simplified>>
    /\ UNCHANGED streamVars
    /\ UNCHANGED pureVars

(***************************************************************************)
(* gemini.py: the contents of a request, GeminiAgentModel.__init__ and     *)
(* _make_request up to the POST.                                           *)
(***************************************************************************)
_response_part_from_response(name, resp) ==
    [function_response |-> [name |-> name, response |-> resp]]

_function_call_part_from_call(tool) ==
    IF "args_dict" \notin DOMAIN tool.args THEN Raised("AssertionError")
    ELSE Ok(_GeminiFunctionCallPart(tool.tool_name, tool.args.args_dict))

_content_user_prompt(m) == _GeminiContent("user", <<[text |-> m.content]>>)

_content_tool_return(m) ==
    _GeminiContent("user", <<_response_part_from_response(m.tool_name, model_response_object(m))>>)

\* A retry prompt that is a function response whether or not it names a tool.
_content_retry_prompt_always_tool(m) ==
    _GeminiContent("user",
        <<_response_part_from_response(IF m.tool_name = None THEN "" ELSE m.tool_name[1],
                                       [call_error |-> model_response(m)])>>)

_content_retry_prompt(m) ==
    IF m.tool_name = None
    THEN _GeminiContent("user", <<[text |-> model_response(m)]>>)
    ELSE _GeminiContent("user",
            <<_response_part_from_response(m.tool_name[1], [call_error |-> model_response(m)])>>)

_content_model_response(m) ==
    LET parts == Collect([i \in 1..Len(m.parts) |->
                    IF IsToolCallPart(m.parts[i]) THEN _function_call_part_from_call(m.parts[i])
                    ELSE Ok([text |-> m.parts[i].content])])
    IN IF IsRaised(parts) THEN parts ELSE Ok(_GeminiContent("model", parts.ok))

IsSystemPrompt(m) == m.message_kind = "system-prompt"
IsNotSystemPrompt(m) == ~IsSystemPrompt(m)

\* Of a message that is not a SystemPrompt.
_message_to_gemini_content(m) ==
    CASE m.message_kind = "user-prompt" -> Ok(_content_user_prompt(m))
      [] m.message_kind = "tool-return" -> Ok(_content_tool_return(m))
      [] m.message_kind = "retry-prompt" -> Ok(_content_retry_prompt(m))
      [] m.message_kind = "model-response" -> _content_model_response(m)

_tool_config(function_names) ==
    [function_calling_config |-> [mode |-> "ANY", allowed_function_names |-> function_names]]

\* __init__: self.tools and self.tool_config
GeminiTools == IF tools # <<>> THEN Some([function_declarations |-> tools]) ELSE None
GeminiToolConfig == IF allow_text_result THEN None ELSE Some(_tool_config(tools))

GeminiKey(k) == IF k = "max_tokens" THEN "max_output_tokens" ELSE k

_GeminiGenerationConfig(settings) ==
    LET given == {k \in {"max_tokens", "temperature", "top_p"} : k \in DOMAIN settings}
    IN [g \in {GeminiKey(k) : k \in given} |->
           settings[CHOOSE k \in given : GeminiKey(k) = g]]

GeminiAgentModel_make_request ==
    /\ provider = "gemini"
    /\ request_data = None
    /\ LET system == SelectSeq(messages, IsSystemPrompt)
           others == SelectSeq(messages, IsNotSystemPrompt)
           sys_prompt_parts == [i \in 1..Len(system) |-> [text |-> system[i].content]]
           contents == Collect([i \in 1..Len(others) |-> _message_to_gemini_content(others[i])])
           settings == IF model_settings = None THEN <<>> ELSE model_settings[1]
           generation_config == _GeminiGenerationConfig(settings)
       IN request_data' =
             IF IsRaised(contents) THEN Some(contents)
             ELSE Some([contents |-> contents.ok,
                        system_instruction |->
                            IF sys_prompt_parts # <<>>
                            THEN Some([role |-> "user", parts |-> sys_prompt_parts])
                            ELSE None,
                        tools |-> GeminiTools,
                        tool_config |-> GeminiToolConfig,
                        generation_config |->
                            IF DOMAIN generation_config # {} THEN Some(generation_config)
                            ELSE None])
    /\ UNCHANGED <<provider, received, returned, messages, tools, allow_text_result,
                   model_settings, parameters_json_schema, simplified>>
    /\ UNCHANGED streamVars
    /\ UNCHANGED pureVars

InitBuild ==
    /\ provider \in {"openai", "gemini"}
    /\ messages \in SeqsUpTo(Messages, MaxMessages)
    /\ tools \in ToolLists
    /\ allow_text_result \in BOOLEAN
    /\ model_settings \in {None} \cup {Some(d) : d \in ModelSettings}
    /\ request_data = None
    /\ received = None
    /\ returned = None
    /\ parameters_json_schema = None
    /\ simplified = None
    /\ NoStream
    /\ NoPure

NextBuild ==
    \/ OpenAIAgentModel_completions_create
    \/ GeminiAgentModel_make_request

SpecBuild == InitBuild /\ [][NextBuild]_vars

\* The request was built and handed to the client.
Built == request_data # None /\ ~IsRaised(request_data[1])

(***************************************************************************)
(* C14.  When allow_text_result is false and the agent model has at least  *)
(* one tool, the request that is built forces tool use: tool_choice is     *)
(* 'required' for OpenAI, the function-calling mode is 'ANY' for Gemini.   *)
(* When allow_text_result is true the request does not force tool use.     *)
(***************************************************************************)
C14_ToolUseForced ==
    Built =>
        LET r == request_data[1]
        IN /\ (~allow_text_result /\ tools # <<>>)
                => IF provider = "openai"
                   THEN r.tool_choice = Some("required")
                   ELSE /\ r.tool_config # None
                        /\ r.tool_config[1].function_calling_config.mode = "ANY"
           /\ allow_text_result
                => IF provider = "openai"
                   THEN r.tool_choice # Some("required")
                   ELSE r.tool_config = None

C14_Witness_RequiredWithOneTool ==
    /\ Built
    /\ provider = "openai"
    /\ ~allow_text_result
    /\ tools = <<"f">>
    /\ request_data[1].tool_choice = Some("required")

RetrySuffix == "\n\nFix the errors and try again."

\* The OpenAI entry e is the entry of message m.
OpenAIEntryOf(e, m) ==
    CASE m.message_kind = "system-prompt" -> e.role = "system" /\ e.content = m.content
      [] m.message_kind = "user-prompt" -> e.role = "user" /\ e.content = m.content
      [] m.message_kind = "tool-return" -> e.role = "tool" /\ e.content = m.content.str
      [] m.message_kind = "retry-prompt"
            -> e.role \in {"user", "tool"} /\ e.content = m.content.str \o RetrySuffix
      [] m.message_kind = "model-response"
            -> /\ e.role = "assistant"
               /\ (e.content = None) = (\A i \in 1..Len(m.parts) : m.parts[i].part_kind # "text")
               /\ (e.tool_calls = None)
                     = (\A i \in 1..Len(m.parts) : m.parts[i].part_kind # "tool-call")

\* The Gemini content c is the content of message m, which is no SystemPrompt.
GeminiContentOf(c, m) ==
    CASE m.message_kind = "user-prompt"
            -> c.role = "user" /\ c.parts = <<[text |-> m.content]>>
      [] m.message_kind = "tool-return"
            -> /\ c.role = "user"
               /\ Len(c.parts) = 1
               /\ "function_response" \in DOMAIN c.parts[1]
               /\ c.parts[1].function_response.response = [return_value |-> m.content]
      [] m.message_kind = "retry-prompt"
            -> /\ c.role = "user"
               /\ Len(c.parts) = 1
               /\ \/ c.parts[1] = [text |-> m.content.str \o RetrySuffix]
                  \/ /\ "function_response" \in DOMAIN c.parts[1]
                     /\ c.parts[1].function_response.response
                            = [call_error |-> m.content.str \o RetrySuffix]
      [] m.message_kind = "model-response"
            -> c.role = "model" /\ Len(c.parts) = Len(m.parts)

\* The positions of the messages that are, or are not, a SystemPrompt.
RECURSIVE PositionsFrom(_, _)
PositionsFrom(i, system) ==
    IF i > Len(messages) THEN <<>>
    ELSE (IF (messages[i].message_kind = "system-prompt") = system THEN <<i>> ELSE <<>>)
         \o PositionsFrom(i + 1, system)

(***************************************************************************)
(* C15.  The builders map the messages one to one in conversation order.   *)
(* The OpenAI message list has one entry per message, in the same order,   *)
(* a SystemPrompt inline as a 'system' entry.  The Gemini contents have    *)
(* one entry per message that is not a SystemPrompt, in the same order;    *)
(* the SystemPrompts, in order, are the parts of system_instruction,       *)
(* which is absent when the conversation has no SystemPrompt.              *)
(***************************************************************************)
C15_MessagesMappedInOrder ==
    Built =>
        LET r == request_data[1]
        IN IF provider = "openai"
           THEN /\ Len(r.messages) = Len(messages)
                /\ \A i \in 1..Len(messages) : OpenAIEntryOf(r.messages[i], messages[i])
           ELSE LET others == PositionsFrom(1, FALSE)
                    system == PositionsFrom(1, TRUE)
                IN /\ Len(r.contents) = Len(others)
                   /\ \A j \in 1..Len(others) :
                          GeminiContentOf(r.contents[j], messages[others[j]])
                   /\ (r.system_instruction = None) = (system = <<>>)
                   /\ system # <<>>
                        => /\ Len(r.system_instruction[1].parts) = Len(system)
                           /\ \A j \in 1..Len(system) :
                                  r.system_instruction[1].parts[j]
                                      = [text |-> messages[system[j]].content]

C15_Witness_SystemPromptSetApart ==
    /\ Built
    /\ provider = "gemini"
    /\ messages = <<UserPrompt("hi"), SystemPrompt("sys")>>
    /\ Len(request_data[1].contents) = 1
    /\ request_data[1].system_instruction # None

\* The entry of the built request that message i, no SystemPrompt, was mapped to.
EntryAt(i) ==
    IF provider = "openai" THEN request_data[1].messages[i]
    ELSE request_data[1].contents[
            Cardinality({j \in 1..i : messages[j].message_kind # "system-prompt"})]

IsToolResult(e) ==
    IF provider = "openai" THEN e.role = "tool"
    ELSE Len(e.parts) = 1 /\ "function_response" \in DOMAIN e.parts[1]

IsUserText(e) ==
    IF provider = "openai" THEN e.role = "user"
    ELSE e.role = "user" /\ Len(e.parts) = 1 /\ "text" \in DOMAIN e.parts[1]

\* The identifier the provider's tool-result entry needs is present in m:
\* the tool_call_id of a ToolReturn for OpenAI, the tool_name otherwise.
IdentifierPresent(m) ==
    IF m.message_kind = "tool-return"
    THEN provider = "openai" => m.tool_call_id # None
    ELSE m.tool_name # None

IsToolMessage(m) == m.message_kind \in {"tool-return", "retry-prompt"}
IsPrompt(m) == m.message_kind \in {"system-prompt", "user-prompt"}

LacksToolCallId(m) ==
    \/ m.message_kind = "tool-return" /\ m.tool_call_id = None
    \/ m.message_kind = "retry-prompt" /\ m.tool_name # None /\ m.tool_call_id = None
    \/ /\ m.message_kind = "model-response"
       /\ \E i \in 1..Len(m.parts) :
             m.parts[i].part_kind = "tool-call" /\ m.parts[i].tool_call_id = None

(***************************************************************************)
(* C17.  The OpenAI builder fails with an error, and hands no request to   *)
(* the client, when a ToolReturn, a RetryPrompt naming a tool or a tool    *)
(* call of a ModelResponse has tool_call_id None.  A request that is built *)
(* has no tool entry and no tool call without its identifier.              *)
(***************************************************************************)
C17_MissingToolCallIdFailsFast ==
    (provider = "openai" /\ request_data # None) =>
        /\ (\E i \in 1..Len(messages) : LacksToolCallId(messages[i]))
              => IsRaised(request_data[1])
        /\ Built =>
              \A i \in 1..Len(messages) :
                  LET e == request_data[1].messages[i]
                  IN /\ e.role = "tool" => e.tool_call_id = messages[i].tool_call_id
                     /\ (e.role = "assistant" /\ e.tool_calls # None)
                           => \A k \in 1..Len(e.tool_calls[1]) :
                                 \E p \in 1..Len(messages[i].parts) :
                                     /\ messages[i].parts[p].part_kind = "tool-call"
                                     /\ messages[i].parts[p].tool_call_id
                                            = Some(e.tool_calls[1][k].id)

C17_Witness_ReturnWithoutId ==
    /\ provider = "openai"
    /\ messages = <<UserPrompt("hi"), ToolReturn("f", PyStr("done"), None)>>
    /\ request_data # None
    /\ IsRaised(request_data[1])

\* The settings the caller supplied: none when model_settings is None.
Supplied == IF model_settings = None THEN <<>> ELSE model_settings[1]

(***************************************************************************)
(* C18.  Whatever subset of max_tokens, temperature and top_p the caller   *)
(* supplies, the payload carries exactly those settings with their values: *)
(* a setting that is not supplied is left out, and Gemini's                *)
(* generation_config is left out altogether when none is supplied.         *)
(***************************************************************************)
C18_ExactlyTheSuppliedSettings ==
    Built =>
        LET r == request_data[1]
        IN IF provider = "openai"
           THEN \A k \in {"max_tokens", "temperature", "top_p"} :
                    r.settings[k] = IF k \in DOMAIN Supplied THEN Some(Supplied[k]) ELSE None
           ELSE /\ (r.generation_config = None) = (DOMAIN Supplied = {})
                /\ r.generation_config # None =>
                      LET c == r.generation_config[1]
                      IN /\ DOMAIN c \subseteq {"max_output_tokens", "temperature", "top_p"}
                         /\ ("max_output_tokens" \in DOMAIN c) = ("max_tokens" \in DOMAIN Supplied)
                         /\ ("temperature" \in DOMAIN c) = ("temperature" \in DOMAIN Supplied)
                         /\ ("top_p" \in DOMAIN c) = ("top_p" \in DOMAIN Supplied)
                         /\ "max_output_tokens" \in DOMAIN c
                               => c["max_output_tokens"] = Supplied["max_tokens"]
                         /\ "temperature" \in DOMAIN c => c["temperature"] = Supplied["temperature"]
                         /\ "top_p" \in DOMAIN c => c["top_p"] = Supplied["top_p"]

C18_Witness_TemperatureOnly ==
    /\ Built
    /\ provider = "gemini"
    /\ model_settings # None
    /\ DOMAIN model_settings[1] = {"temperature"}
    /\ request_data[1].generation_config # None
    /\ DOMAIN request_data[1].generation_config[1] = {"temperature"}

(***************************************************************************)
(* gemini.py: _GeminiJsonSchema.  A schema node is a dict; a key the dict  *)
(* does not have is None here.  The values of properties are kept in the   *)
(* order of the dict.                                                      *)
(***************************************************************************)
MaxDepth == 1           \* nesting of the schema nodes below the root

Schema ==
    [type |-> None, title |-> None, default |-> None, ref |-> None, anyOf |-> None,
     oneOf |-> None, properties |-> None, items |-> None, prefixItems |-> None,
     additionalProperties |-> None]

String == [Schema EXCEPT !.type = Some("string")]
Object == [Schema EXCEPT !.type = Some("object")]
Array == [Schema EXCEPT !.type = Some("array")]
Ref(key) == [Schema EXCEPT !.ref = Some("#/$defs/" \o key)]

SchemaLeaves ==
    {String,
     [String EXCEPT !.title = Some("T")],
     [String EXCEPT !.default = Some("d")],
     Ref("A"),
     Ref("B"),
     [Object EXCEPT !.additionalProperties = Some(TRUE)],
     [Object EXCEPT !.additionalProperties = Some(FALSE)]}

SchemasAround(c) ==
    {[Object EXCEPT !.properties = Some(<<c>>)],
     [Array EXCEPT !.items = Some(c)],
     [Array EXCEPT !.prefixItems = Some(<<c>>)],
     [Schema EXCEPT !.anyOf = Some(<<c, [String EXCEPT !.title = Some("T")]>>)],
     [Object EXCEPT !.anyOf = Some(<<String>>), !.properties = Some(<<c>>)],
     [Schema EXCEPT !.oneOf = Some(<<c>>)]}

RECURSIVE Schemas(_)
Schemas(depth) ==
    IF depth = 0 THEN SchemaLeaves
    ELSE SchemaLeaves \cup UNION {SchemasAround(c) : c \in Schemas(depth - 1)}

\* re.sub(r'^#/\$defs/', '', ref)
RefKey(ref) ==
    CASE ref = "#/$defs/A" -> "A"
      [] ref = "#/$defs/B" -> "B"
      [] OTHER -> ref

SchemaKeys ==
    {"type", "title", "default", "ref", "anyOf", "oneOf", "properties", "items",
     "prefixItems", "additionalProperties"}

\* schema.update(schema_def)
Update(node, schema_def) ==
    [k \in SchemaKeys |-> IF schema_def[k] # None THEN schema_def[k] ELSE node[k]]

\* The definitions are simplified in place: every step gives the node as it
\* is afterwards together with the definitions as they are afterwards.
Simplified(node, defs) == Ok([schema |-> node, defs |-> defs])

RECURSIVE _simplify(_, _, _), _simplify_each(_, _, _), _object(_, _, _), _array(_, _, _)

\* for value in values: self._simplify(value, refs_stack)
_simplify_each(values, defs, refs_stack) ==
    IF values = <<>> THEN Ok([schemas |-> <<>>, defs |-> defs])
    ELSE LET first == _simplify(Head(values), defs, refs_stack)
         IN IF IsRaised(first) THEN first
            ELSE LET rest == _simplify_each(Tail(values), first.ok.defs, refs_stack)
                 IN IF IsRaised(rest) THEN rest
                    ELSE Ok([schemas |-> <<first.ok.schema>> \o rest.ok.schemas,
                             defs |-> rest.ok.defs])

_object(node, defs, refs_stack) ==
    IF node.additionalProperties # None /\ node.additionalProperties[1]
    THEN Raised("UserError")
    ELSE LET popped == [node EXCEPT !.additionalProperties = None]
         IN IF popped.properties # None /\ popped.properties[1] # <<>>
            THEN LET values == _simplify_each(popped.properties[1], defs, refs_stack)
                 IN IF IsRaised(values) THEN values
                    ELSE Simplified([popped EXCEPT !.properties = Some(values.ok.schemas)],
                                    values.ok.defs)
            ELSE Simplified(popped, defs)

_array(node, defs, refs_stack) ==
    LET prefix_items ==
            IF node.prefixItems # None /\ node.prefixItems[1] # <<>>
            THEN _simplify_each(node.prefixItems[1], defs, refs_stack)
            ELSE Ok([schemas |-> <<>>, defs |-> defs])
    IN IF IsRaised(prefix_items) THEN prefix_items
       ELSE LET after == IF node.prefixItems # None /\ node.prefixItems[1] # <<>>
                         THEN [node EXCEPT !.prefixItems = Some(prefix_items.ok.schemas)]
                         ELSE node
            IN IF after.items # None
               THEN LET items_schema == _simplify(after.items[1], prefix_items.ok.defs, refs_stack)
                    IN IF IsRaised(items_schema) THEN items_schema
                       ELSE Simplified([after EXCEPT !.items = Some(items_schema.ok.schema)],
                                       items_schema.ok.defs)
               ELSE Simplified(after, prefix_items.ok.defs)

\* The end of _simplify: the dispatch on the type of the dict that the name
\* schema is bound to.
ByType(node, defs, refs_stack) ==
    IF node.type = Some("object") THEN _object(node, defs, refs_stack)
    ELSE IF node.type = Some("array") THEN _array(node, defs, refs_stack)
    ELSE Simplified(node, defs)

_simplify(node, defs, refs_stack) ==
    LET popped == [node EXCEPT !.title = None, !.default = None]
    IN IF popped.ref # None
       THEN LET key == RefKey(popped.ref[1])
            IN IF \E i \in 1..Len(refs_stack) : refs_stack[i] = key
               THEN Raised("UserError")
               ELSE LET schema_def == _simplify(defs[key], defs, Append(refs_stack, key))
                    IN IF IsRaised(schema_def) THEN schema_def
                       ELSE Simplified(Update([popped EXCEPT !.ref = None], schema_def.ok.schema),
                                       [schema_def.ok.defs EXCEPT ![key] = schema_def.ok.schema])
       ELSE IF popped.anyOf # None /\ popped.anyOf[1] # <<>>
       THEN \* the loop variable is named schema: after the loop the name is
            \* bound to the last member of anyOf, and the dispatch is on it
            LET any_of == _simplify_each(popped.anyOf[1], defs, refs_stack)
            IN IF IsRaised(any_of) THEN any_of
               ELSE LET n == Len(any_of.ok.schemas)
                        last == ByType(any_of.ok.schemas[n], any_of.ok.defs, refs_stack)
                    IN IF IsRaised(last) THEN last
                       ELSE Simplified(
                               [popped EXCEPT !.anyOf =
                                   Some([any_of.ok.schemas EXCEPT ![n] = last.ok.schema])],
                               last.ok.defs)
       ELSE ByType(popped, defs, refs_stack)

(***************************************************************************)
(* _GeminiJsonSchema(schema).simplify(): __init__ takes $defs out of a     *)
(* copy of the schema, simplify gives back the schema without it.          *)
(***************************************************************************)
GeminiJsonSchema_simplify ==
    /\ simplified = None
    /\ LET done == _simplify(parameters_json_schema.schema, parameters_json_schema.defs, <<>>)
       IN simplified' = IF IsRaised(done) THEN Some(done) ELSE Some(Ok(done.ok.schema))
    /\ UNCHANGED <<provider, received, returned, messages, tools, allow_text_result,
                   model_settings, request_data, parameters_json_schema>>
    /\ UNCHANGED streamVars
    /\ UNCHANGED pureVars

InitSchema ==
    /\ provider = "gemini"
    /\ parameters_json_schema \in
          [schema : Schemas(MaxDepth),
           defs : [A : Schemas(MaxDepth - 1), B : SchemaLeaves]]
    /\ simplified = None
    /\ received = None
    /\ returned = None
    /\ messages = <<>>
    /\ tools = <<>>
    /\ allow_text_result = TRUE
    /\ model_settings = None
    /\ request_data = None
    /\ NoStream
    /\ NoPure

NextSchema == GeminiJsonSchema_simplify

SpecSchema == InitSchema /\ [][NextSchema]_vars

\* The schema nodes directly below a node, and every node of a schema.
ListOf(field) == IF field = None THEN {} ELSE {field[1][i] : i \in 1..Len(field[1])}

Children(node) ==
    ListOf(node.anyOf) \cup ListOf(node.oneOf) \cup ListOf(node.properties)
        \cup ListOf(node.prefixItems)
        \cup (IF node.items = None THEN {} ELSE {node.items[1]})

RECURSIVE NodesOf(_)
NodesOf(node) == {node} \cup UNION {NodesOf(c) : c \in Children(node)}

\* The definitions a schema refers to, and those it reaches through them.
RefsOf(node) == {RefKey(n.ref[1]) : n \in {m \in NodesOf(node) : m.ref # None}}

RECURSIVE Reached(_, _)
Reached(keys, steps) ==
    IF steps = 0 THEN keys
    ELSE Reached(keys \cup UNION {RefsOf(parameters_json_schema.defs[k]) : k \in keys},
                 steps - 1)

ReachedFrom(node) == Reached(RefsOf(node), 2)

\* The schema has a cycle of $refs that its root leads to.
Cyclic ==
    \E k \in ReachedFrom(parameters_json_schema.schema) :
        k \in ReachedFrom(parameters_json_schema.defs[k])

\* Every node of the schema: those of the root and of the definitions it reaches.
AllNodes ==
    NodesOf(parameters_json_schema.schema)
        \cup UNION {NodesOf(parameters_json_schema.defs[k]) :
                        k \in ReachedFrom(parameters_json_schema.schema)}

(***************************************************************************)
(* C19.  Simplifying a schema that has a $ref cycle fails with UserError.  *)
(* When the schema has none, the schema that simplify gives back has no    *)
(* $ref, no title and no default at any of its nodes ($defs is taken off   *)
(* the root at construction).                                              *)
(***************************************************************************)
C19_NoRefTitleDefaultLeft ==
    simplified # None =>
        IF Cyclic THEN simplified = Some(Raised("UserError"))
        ELSE ~IsRaised(simplified[1]) =>
                \A n \in NodesOf(simplified[1].ok) :
                    n.ref = None /\ n.title = None /\ n.default = None

C19_Witness_TitleLeftBesideAnyOf ==
    /\ parameters_json_schema.schema =
          [Object EXCEPT !.anyOf = Some(<<String>>),
                         !.properties = Some(<<[String EXCEPT !.title = Some("T")]>>)]
    /\ simplified # None
    /\ ~IsRaised(simplified[1])
    /\ simplified[1].ok.properties[1][1].title = Some("T")

(***************************************************************************)
(* C20.  Simplification fails with UserError whenever an object-typed      *)
(* node of the schema, at any depth, has a truthy additionalProperties.    *)
(* A falsy additionalProperties raises nothing and is not in the schema    *)
(* that simplify gives back.                                               *)
(***************************************************************************)
C20_AdditionalPropertiesRejected ==
    simplified # None =>
        /\ (\E n \in AllNodes :
               n.type = Some("object") /\ n.additionalProperties = Some(TRUE))
              => simplified = Some(Raised("UserError"))
        /\ ~IsRaised(simplified[1]) =>
              \A n \in NodesOf(simplified[1].ok) :
                  n.type = Some("object") => n.additionalProperties = None

C20_Witness_AcceptedBesideAnyOf ==
    /\ parameters_json_schema.schema =
          [Object EXCEPT !.anyOf = Some(<<String>>),
                         !.properties =
                             Some(<<[Object EXCEPT !.additionalProperties = Some(TRUE)]>>)]
    /\ simplified # None
    /\ ~IsRaised(simplified[1])
    /\ simplified[1].ok.properties[1][1].additionalProperties = Some(TRUE)

(***************************************************************************)
(* The cost of a response: _map_cost and _metadata_as_cost applied to a    *)
(* usage, and the addition of costs that sums them over a stream.          *)
(***************************************************************************)
\* The functions over every subset of the keys.
DictsOver(keys, values) == UNION {[ks -> values] : ks \in SUBSET keys}

\* CompletionTokensDetails and PromptTokensDetails, dumped without the fields
\* that are None.  Both have audio_tokens.
CompletionDetails == DictsOver({"reasoning_tokens", "audio_tokens"}, {0, 1})
PromptDetails == DictsOver({"cached_tokens", "audio_tokens"}, {0, 2})

CompletionUsages ==
    {None} \cup {Some(Usage(2, 3, cd, pd)) :
                    cd \in {None} \cup {Some(d) : d \in CompletionDetails},
                    pd \in {None} \cup {Some(d) : d \in PromptDetails}}

\* _GeminiUsageMetaData: every key is optional.
UsageMetadatas ==
    {None} \cup {Some(m) : m \in DictsOver({"prompt_token_count", "candidates_token_count",
                                            "total_token_count", "cached_content_token_count"},
                                           {0, 1})}

Costs ==
    {ZeroCost,
     Cost(1, 2, 3, NoDetails),
     Cost(2, 0, 2, [cached_tokens |-> 1]),
     Cost(0, 1, 1, [reasoning_tokens |-> 2]),
     Cost(1, 1, 2, [cached_tokens |-> 2, reasoning_tokens |-> 1])}

OpenAI_map_cost ==
    /\ argument # None
    /\ argument[1].function = "_map_cost"
    /\ value = None
    /\ value' = Some(_map_cost([usage |-> argument[1].usage]))
    /\ UNCHANGED <<provider, argument, log, accumulators>>
    /\ UNCHANGED callVars
    /\ UNCHANGED streamVars

Gemini_metadata_as_cost ==
    /\ argument # None
    /\ argument[1].function = "_metadata_as_cost"
    /\ value = None
    /\ value' = Some(_metadata_as_cost([usage_metadata |-> argument[1].usage]))
    /\ UNCHANGED <<provider, argument, log, accumulators>>
    /\ UNCHANGED callVars
    /\ UNCHANGED streamVars

\* self._cost += ...: the sums of three costs, taken in the orders that an
\* associative and commutative addition cannot tell apart.
Cost_add ==
    /\ argument # None
    /\ argument[1].function = "__add__"
    /\ value = None
    /\ LET a == argument[1].a
           b == argument[1].b
           c == argument[1].c
       IN value' = Some([ab |-> CostAdd(a, b), ba |-> CostAdd(b, a),
                         ab_c |-> CostAdd(CostAdd(a, b), c),
                         a_bc |-> CostAdd(a, CostAdd(b, c)),
                         zero_a |-> CostAdd(ZeroCost, a),
                         a_zero |-> CostAdd(a, ZeroCost)])
    /\ UNCHANGED <<provider, argument, log, accumulators>>
    /\ UNCHANGED callVars
    /\ UNCHANGED streamVars

\* No request is built, no response reconstructed, no schema simplified.
NoCall ==
    /\ received = None
    /\ returned = None
    /\ messages = <<>>
    /\ tools = <<>>
    /\ allow_text_result = TRUE
    /\ model_settings = None
    /\ request_data = None
    /\ parameters_json_schema = None
    /\ simplified = None

InitCost ==
    /\ argument \in
          {Some([function |-> "_map_cost", usage |-> u]) : u \in CompletionUsages}
          \cup {Some([function |-> "_metadata_as_cost", usage |-> u]) : u \in UsageMetadatas}
          \cup {Some([function |-> "__add__", a |-> a, b |-> b, c |-> c]) :
                    a \in Costs, b \in Costs, c \in Costs}
    /\ provider = (IF argument[1].function = "_metadata_as_cost" THEN "gemini" ELSE "openai")
    /\ value = None
    /\ log = <<>>
    /\ accumulators = <<>>
    /\ NoCall
    /\ NoStream

NextCost ==
    \/ OpenAI_map_cost
    \/ Gemini_metadata_as_cost
    \/ Cost_add

SpecCost == InitCost /\ [][NextCost]_vars

\* The function the argument is for has been applied to it.
Applied(function) == argument # None /\ argument[1].function = function /\ value # None

(***************************************************************************)
(* C21.  A usage that is absent maps to the zero Cost.  Every detail field *)
(* that is present in the usage -- in the completion details, in the       *)
(* prompt details, the cached content count of Gemini -- is in the details *)
(* of the Cost under its own name with its own value: none is dropped,     *)
(* none is overwritten by another.                                         *)
(***************************************************************************)
C21_EveryDetailKeptUnderItsName ==
    /\ Applied("_map_cost") =>
          IF argument[1].usage = None THEN value[1] = ZeroCost
          ELSE LET usage == argument[1].usage[1]
                   cd == IF usage.completion_tokens_details = None THEN NoDetails
                         ELSE usage.completion_tokens_details[1]
                   pd == IF usage.prompt_tokens_details = None THEN NoDetails
                         ELSE usage.prompt_tokens_details[1]
               IN /\ \A k \in DOMAIN cd :
                         k \in DOMAIN value[1].details /\ value[1].details[k] = cd[k]
                  /\ \A k \in DOMAIN pd :
                         k \in DOMAIN value[1].details /\ value[1].details[k] = pd[k]
    /\ Applied("_metadata_as_cost") =>
          IF argument[1].usage = None THEN value[1] = ZeroCost
          ELSE LET metadata == argument[1].usage[1]
               IN "cached_content_token_count" \in DOMAIN metadata
                     => /\ "cached_content_token_count" \in DOMAIN value[1].details
                        /\ value[1].details["cached_content_token_count"]
                               = metadata["cached_content_token_count"]

C21_Witness_AudioTokensOverwritten ==
    /\ Applied("_map_cost")
    /\ argument[1].usage # None
    /\ argument[1].usage[1].completion_tokens_details = Some([audio_tokens |-> 1])
    /\ argument[1].usage[1].prompt_tokens_details = Some([audio_tokens |-> 2])
    /\ value[1].details = [audio_tokens |-> 2]

(***************************************************************************)
(* C22.  The addition of costs is commutative and associative, and the     *)
(* default Cost() is its identity on either side, a count or detail that   *)
(* is absent counting as zero.                                             *)
(***************************************************************************)
C22_CostAdditionIsAMonoid ==
    Applied("__add__") =>
        /\ value[1].ab = value[1].ba
        /\ value[1].ab_c = value[1].a_bc
        /\ value[1].zero_a = argument[1].a
        /\ value[1].a_zero = argument[1].a
        /\ value[1].ab.total_tokens = argument[1].a.total_tokens + argument[1].b.total_tokens
        /\ \A k \in DOMAIN argument[1].a.details \cup DOMAIN argument[1].b.details :
              value[1].ab.details[k]
                  = DetailOf(argument[1].a.details, k) + DetailOf(argument[1].b.details, k)

C22_Witness_DetailsOfBothSides ==
    /\ Applied("__add__")
    /\ argument[1].a = Cost(2, 0, 2, [cached_tokens |-> 1])
    /\ argument[1].b = Cost(1, 1, 2, [cached_tokens |-> 2, reasoning_tokens |-> 1])
    /\ argument[1].c = Cost(0, 1, 1, [reasoning_tokens |-> 2])
    /\ value[1].ab_c = Cost(3, 2, 5, [cached_tokens |-> 3, reasoning_tokens |-> 3])

(***************************************************************************)
(* messages.py: MessagesTypeAdapter, the JSON encoding of list[Message],   *)
(* each message discriminated by message_kind and each part of a           *)
(* ModelResponse by part_kind.  dump_json writes the JSON value of every   *)
(* field; validate_json builds the class the discriminator names from the  *)
(* members of the object.  The timestamps are not modelled.                *)
(***************************************************************************)
OptionalJson(x) == IF x = None THEN JsonNull ELSE JsonString(x[1])

ArgsJsonValue(args) ==
    IF "args_json" \in DOMAIN args
    THEN JsonObject(<<<<"args_json", JsonString(args.args_json)>>>>)
    ELSE JsonObject(<<<<"args_dict", to_json(args.args_dict)>>>>)

PartJson(part) ==
    IF part.part_kind = "text"
    THEN JsonObject(<<<<"content", JsonString(part.content)>>,
                      <<"part_kind", JsonString(part.part_kind)>>>>)
    ELSE JsonObject(<<<<"tool_name", JsonString(part.tool_name)>>,
                      <<"args", ArgsJsonValue(part.args)>>,
                      <<"tool_call_id", OptionalJson(part.tool_call_id)>>,
                      <<"part_kind", JsonString(part.part_kind)>>>>)

RetryContentJson(content) ==
    IF "str" \in DOMAIN content THEN JsonString(content.str)
    ELSE ErrorDetailsTa_dump(content.list, {})

MessageJson(m) ==
    LET tags == <<<<"role", JsonString(m.role)>>,
                  <<"message_kind", JsonString(m.message_kind)>>>>
    IN CASE m.message_kind \in {"system-prompt", "user-prompt"}
               -> JsonObject(<<<<"content", JsonString(m.content)>>>> \o tags)
         [] m.message_kind = "tool-return"
               -> JsonObject(<<<<"tool_name", JsonString(m.tool_name)>>,
                               <<"content", to_json(m.content)>>,
                               <<"tool_call_id", OptionalJson(m.tool_call_id)>>>> \o tags)
         [] m.message_kind = "retry-prompt"
               -> JsonObject(<<<<"content", RetryContentJson(m.content)>>,
                               <<"tool_name", OptionalJson(m.tool_name)>>,
                               <<"tool_call_id", OptionalJson(m.tool_call_id)>>>> \o tags)
         [] m.message_kind = "model-response"
               -> JsonObject(<<<<"parts", JsonArray([i \in 1..Len(m.parts) |->
                                                        PartJson(m.parts[i])])>>>> \o tags)

MessagesTypeAdapter_dump_json(ms) == JsonArray([i \in 1..Len(ms) |-> MessageJson(ms[i])])

HasMember(j, key) == \E i \in 1..Len(j.object) : j.object[i][1] = key
Member(j, key) == j.object[CHOOSE i \in 1..Len(j.object) : j.object[i][1] = key][2]

\* The Python value of a JSON value, for a field typed Any.
RECURSIVE python_of_json(_)
python_of_json(j) ==
    CASE "string" \in DOMAIN j -> PyStr(j.string)
      [] "array" \in DOMAIN j -> PyList([i \in 1..Len(j.array) |-> python_of_json(j.array[i])])
      [] "object" \in DOMAIN j
            -> PyDict([i \in 1..Len(j.object) |->
                           <<j.object[i][1], python_of_json(j.object[i][2])>>])

OptionalOf(j) == IF "null" \in DOMAIN j THEN None ELSE Some(j.string)

validate_args_as_dict(j) == [args_dict |-> python_of_json(j)]

\* args: ArgsJson | ArgsDict, told apart by the field each requires.
validate_args(j) ==
    IF HasMember(j, "args_json")
    THEN [args_json |-> Member(j, "args_json").string]
    ELSE [args_dict |-> python_of_json(Member(j, "args_dict"))]

validate_part(j) ==
    IF Member(j, "part_kind").string = "text"
    THEN [part_kind |-> "text", content |-> Member(j, "content").string]
    ELSE [part_kind |-> "tool-call", tool_name |-> Member(j, "tool_name").string,
          args |-> validate_args(Member(j, "args")),
          tool_call_id |-> OptionalOf(Member(j, "tool_call_id"))]

validate_error_details(j) ==
    LET details == ErrorDetails(Member(j, "type").string,
                                [i \in 1..Len(Member(j, "loc").array) |->
                                     Member(j, "loc").array[i].string],
                                Member(j, "msg").string,
                                python_of_json(Member(j, "input")))
    IN IF HasMember(j, "ctx")
       THEN ErrorDetailsWithCtx(details.type, details.loc, details.msg, details.input,
                                python_of_json(Member(j, "ctx")))
       ELSE details

\* content: list[ErrorDetails] | str
validate_retry_content(j) ==
    IF "string" \in DOMAIN j THEN PyStr(j.string)
    ELSE PyList([i \in 1..Len(j.array) |-> validate_error_details(j.array[i])])

validate_message(j) ==
    LET kind == Member(j, "message_kind").string
        role == Member(j, "role").string
    IN CASE kind \in {"system-prompt", "user-prompt"}
               -> [message_kind |-> kind, role |-> role, content |-> Member(j, "content").string]
         [] kind = "tool-return"
               -> [message_kind |-> kind, role |-> role,
                   tool_name |-> Member(j, "tool_name").string,
                   content |-> python_of_json(Member(j, "content")),
                   tool_call_id |-> OptionalOf(Member(j, "tool_call_id"))]
         [] kind = "retry-prompt"
               -> [message_kind |-> kind, role |-> role,
                   content |-> validate_retry_content(Member(j, "content")),
                   tool_name |-> OptionalOf(Member(j, "tool_name")),
                   tool_call_id |-> OptionalOf(Member(j, "tool_call_id"))]
         [] kind = "model-response"
               -> [message_kind |-> kind, role |-> role,
                   parts |-> [i \in 1..Len(Member(j, "parts").array) |->
                                  validate_part(Member(j, "parts").array[i])]]

MessagesTypeAdapter_validate_json(j) ==
    [i \in 1..Len(j.array) |-> validate_message(j.array[i])]

\* The error details of a failed validation.
ErrorMissing == ErrorDetails("missing", <<"a">>, "Field required", PyDict(<<>>))
ErrorGreater ==
    ErrorDetailsWithCtx("greater_than", <<"b", "c">>, "Input should be greater than 0",
                        PyStr("-1"), PyDict(<<<<"gt", PyStr("0")>>>>))

\* The messages encoded and decoded: every class, a content of every kind
\* of Python value, a tool call of either args representation.
StoredMessages ==
    {SystemPrompt("sys"),
     UserPrompt("hi"),
     ToolReturn("f", PyStr("done"), Some("c1")),
     ToolReturn("f", PyList(<<PyStr("a"), PyStr("b")>>), None),
     ToolReturn("f", PyDict(<<<<"k", PyList(<<PyStr("a")>>)>>>>), None),
     ToolReturn("f", PyTuple(<<PyStr("a"), PyStr("b")>>), None),
     RetryPrompt(PyStr("bad"), None, None),
     RetryPrompt(PyList(<<ErrorMissing, ErrorGreater>>), Some("f"), Some("c1")),
     ModelResponse(<<TextPart("a"), ToolCallPart_from_json("f", "{x}", Some("c1"))>>),
     ModelResponse(<<ToolCallPart_from_dict("f", PyDict(<<<<"x", PyStr("1")>>>>)),
                     ToolCallPart_from_json("g", "{}", None)>>),
     ModelResponse(<<ToolCallPart_from_dict("f", PyDict(<<<<"x", PyTuple(<<PyStr("1")>>)>>>>))>>)}

\* The RetryPrompts whose model_response() is taken.
RetryPrompts ==
    {RetryPrompt(content, tool_name, None) :
        content \in {PyStr("bad"), PyStr(""), PyList(<<>>), PyList(<<ErrorMissing>>),
                     PyList(<<ErrorGreater>>), PyList(<<ErrorMissing, ErrorGreater>>),
                     PyList(<<ErrorGreater, ErrorGreater>>)},
        tool_name \in {None, Some("f")}}

\* MessagesTypeAdapter.validate_json(MessagesTypeAdapter.dump_json(messages))
MessagesTypeAdapter_round_trip ==
    /\ argument # None
    /\ argument[1].function = "MessagesTypeAdapter"
    /\ value = None
    /\ LET encoded == MessagesTypeAdapter_dump_json(argument[1].messages)
       IN /\ value' = Some([messages |-> MessagesTypeAdapter_validate_json(encoded)])
          /\ log' = <<encoded>>
    /\ UNCHANGED <<provider, argument, accumulators>>
    /\ UNCHANGED callVars
    /\ UNCHANGED streamVars

RetryPrompt_model_response ==
    /\ argument # None
    /\ argument[1].function = "model_response"
    /\ value = None
    /\ value' = Some([text |-> model_response(argument[1].message)])
    /\ UNCHANGED <<provider, argument, log, accumulators>>
    /\ UNCHANGED callVars
    /\ UNCHANGED streamVars

InitMessages ==
    /\ argument \in
          {Some([function |-> "MessagesTypeAdapter", messages |-> ms]) :
               ms \in SeqsUpTo(StoredMessages, MaxMessages)}
          \cup {Some([function |-> "model_response", message |-> m]) : m \in RetryPrompts}
    /\ provider = "openai"
    /\ value = None
    /\ log = <<>>
    /\ accumulators = <<>>
    /\ NoCall
    /\ NoStream

NextMessages ==
    \/ MessagesTypeAdapter_round_trip
    \/ RetryPrompt_model_response

SpecMessages == InitMessages /\ [][NextMessages]_vars

\* No value of the message, of any of its parts or error details, is a
\* Python value that JSON has no form of its own for.
RECURSIVE JsonNative(_)
JsonNative(v) ==
    CASE "str" \in DOMAIN v -> TRUE
      [] "tuple" \in DOMAIN v -> FALSE
      [] "list" \in DOMAIN v -> \A i \in 1..Len(v.list) : JsonNative(v.list[i])
      [] "dict" \in DOMAIN v -> \A i \in 1..Len(v.dict) : JsonNative(v.dict[i][2])

JsonNativeMessage(m) ==
    CASE m.message_kind \in {"system-prompt", "user-prompt"} -> TRUE
      [] m.message_kind = "tool-return" -> JsonNative(m.content)
      [] m.message_kind = "retry-prompt"
            -> \/ "str" \in DOMAIN m.content
               \/ \A i \in 1..Len(m.content.list) :
                     /\ JsonNative(m.content.list[i].input)
                     /\ "ctx" \in DOMAIN m.content.list[i]
                            => JsonNative(m.content.list[i].ctx)
      [] m.message_kind = "model-response"
            -> \A i \in 1..Len(m.parts) :
                  (m.parts[i].part_kind = "tool-call" /\ "args_dict" \in DOMAIN m.parts[i].args)
                      => JsonNative(m.parts[i].args.args_dict)

\* The decoded message carries the tags of the encoded one.
SameTags(d, m) ==
    /\ d.message_kind = m.message_kind
    /\ d.role = m.role
    /\ m.message_kind = "model-response"
           => /\ Len(d.parts) = Len(m.parts)
              /\ \A i \in 1..Len(m.parts) : d.parts[i].part_kind = m.parts[i].part_kind

\* C23 as the specification states it: the messages decoded from the
\* encoding of a sequence of messages are equal to that sequence, whatever
\* the messages hold.
C23_RoundTripEqualForEverySequence ==
    Applied("MessagesTypeAdapter") => value[1].messages = argument[1].messages

\* C23: the messages decoded from the encoding of a sequence of messages
\* are as many, each with the message_kind, role and part_kinds of the one
\* encoded; they are equal to the sequence encoded when no value held by a
\* message is a tuple, which the encoding writes as it writes a list.
C23_RoundTripEqualForJsonValues ==
    Applied("MessagesTypeAdapter") =>
        LET ms == argument[1].messages
            ds == value[1].messages
        IN /\ Len(ds) = Len(ms)
           /\ \A i \in 1..Len(ms) : SameTags(ds[i], ms[i])
           /\ (\A i \in 1..Len(ms) : JsonNativeMessage(ms[i])) => ds = ms

C23_Witness_BothArgsAndErrorList ==
    /\ Applied("MessagesTypeAdapter")
    /\ argument[1].messages =
          <<ModelResponse(<<ToolCallPart_from_dict("f", PyDict(<<<<"x", PyStr("1")>>>>)),
                            ToolCallPart_from_json("g", "{}", None)>>),
            RetryPrompt(PyList(<<ErrorMissing, ErrorGreater>>), Some("f"), Some("c1"))>>
    /\ value[1].messages = argument[1].messages

StartsWith(text, prefix) ==
    Len(text) >= Len(prefix) /\ SubSeq(text, 1, Len(prefix)) = prefix
EndsWith(text, suffix) ==
    Len(text) >= Len(suffix) /\ SubSeq(text, Len(text) - Len(suffix) + 1, Len(text)) = suffix
Contains(text, part) ==
    \E i \in 1..(Len(text) - Len(part) + 1) : SubSeq(text, i, i + Len(part) - 1) = part

\* C24: the text RetryPrompt.model_response() returns ends with the
\* sentence "Fix the errors and try again."; of a content that is free text
\* it begins with that text; of a content that is a list of N error details
\* it begins with "N validation errors: ", and what follows holds the
\* message of every error and the ctx of none.
C24_RetryTextDescriptionThenFixSentence ==
    Applied("model_response") =>
        LET content == argument[1].message.content
            text == value[1].text
        IN /\ EndsWith(text, "\n\nFix the errors and try again.")
           /\ "str" \in DOMAIN content => StartsWith(text, content.str)
           /\ "list" \in DOMAIN content =>
                 /\ StartsWith(text, ToString(Len(content.list)) \o " validation errors: ")
                 /\ ~Contains(text, "\"ctx\"")
                 /\ \A i \in 1..Len(content.list) :
                       Contains(text, "\"msg\": \"" \o content.list[i].msg \o "\"")

C24_Witness_TwoErrorsOneWithCtx ==
    /\ Applied("model_response")
    /\ argument[1].message.content = PyList(<<ErrorMissing, ErrorGreater>>)
    /\ StartsWith(value[1].text, "2 validation errors: [\n  {\n    \"type\": \"missing\",")

(***************************************************************************)
(* GeminiAgentModel._make_request, request and request_stream: the HTTP    *)
(* exchange.  value is the HTTP response once its head has arrived, log    *)
(* the steps taken on it, returned what the caller of request or           *)
(* request_stream gets.  Each action is the code between two awaits.       *)
(***************************************************************************)
StatusCodes == {200, 400, 429, 500}

\* The bodies the server answers with.
HttpBodies == {r \in GeminiResponses : Len(r.candidates) <= 1}

HandedOn_always(status_code) == TRUE

\* if r.status_code != 200: ... raise ...; yield r
HandedOn(status_code) == status_code = 200

\* _process_streamed_response of a body that arrives whole.
_process_streamed_response(body) ==
    IF body.candidates = <<>> \/ body.candidates[1].content.parts = <<>>
    THEN Raised("UnexpectedModelBehavior")
    ELSE IF Len(body.candidates) # 1 THEN Raised("UnexpectedModelBehavior")
    ELSE IF _all_function_call_parts(body.candidates[1].content.parts)
    THEN [accumulator |-> "GeminiStreamStructuredResponse"]
    ELSE IF _all_text_parts(body.candidates[1].content.parts)
    THEN [accumulator |-> "GeminiStreamTextResponse"]
    ELSE Raised("UnexpectedModelBehavior")

_process_response(body) ==
    IF Len(body.candidates) # 1 THEN Raised("UnexpectedModelBehavior")
    ELSE IF HasFunctionResponse(body.candidates[1].content.parts)
    THEN Raised("UnexpectedModelBehavior")
    ELSE ModelResponse(_process_response_from_parts(body.candidates[1].content.parts))

Requested == argument # None /\ argument[1].function = "_make_request"

\* async with self.http_client.stream('POST', ...) as r
Gemini_http_client_stream ==
    /\ Requested
    /\ value = None
    /\ \E status_code \in StatusCodes, body \in HttpBodies :
          value' = Some([status_code |-> status_code, body |-> body, is_read |-> FALSE])
    /\ log' = <<"POST">>
    /\ UNCHANGED <<provider, argument, accumulators>>
    /\ UNCHANGED callVars
    /\ UNCHANGED streamVars

\* await r.aread() of a response that is not handed on: the body is read
\* to its end, or the connection fails.
Gemini_aread ==
    /\ Requested
    /\ value # None
    /\ ~HandedOn(value[1].status_code)
    /\ ~value[1].is_read
    /\ returned = None
    /\ \/ /\ value' = Some([value[1] EXCEPT !.is_read = TRUE])
          /\ log' = Append(log, "aread")
          /\ UNCHANGED returned
       \/ /\ returned' = Some(Raised("ReadError"))
          /\ UNCHANGED <<value, log>>
    /\ UNCHANGED <<provider, argument, accumulators>>
    /\ UNCHANGED <<received, messages, tools, allow_text_result, model_settings,
                   request_data, parameters_json_schema, simplified>>
    /\ UNCHANGED streamVars

\* raise exceptions.UnexpectedModelBehavior(..., r.text)
Gemini_raise ==
    /\ Requested
    /\ value # None
    /\ ~HandedOn(value[1].status_code)
    /\ value[1].is_read
    /\ returned = None
    /\ returned' = Some(Raised("UnexpectedModelBehavior"))
    /\ log' = Append(log, "raise")
    /\ UNCHANGED <<provider, argument, value, accumulators>>
    /\ UNCHANGED <<received, messages, tools, allow_text_result, model_settings,
                   request_data, parameters_json_schema, simplified>>
    /\ UNCHANGED streamVars

\* yield r into request: the body is read, validated and reconstructed.
Gemini_request ==
    /\ Requested
    /\ ~argument[1].streamed
    /\ value # None
    /\ HandedOn(value[1].status_code)
    /\ returned = None
    /\ value' = Some([value[1] EXCEPT !.is_read = TRUE])
    /\ log' = log \o <<"yield", "aread", "_process_response">>
    /\ returned' = Some(_process_response(value[1].body))
    /\ UNCHANGED <<provider, argument, accumulators>>
    /\ UNCHANGED <<received, messages, tools, allow_text_result, model_settings,
                   request_data, parameters_json_schema, simplified>>
    /\ UNCHANGED streamVars

\* yield r into request_stream: the response goes to an accumulator.
Gemini_request_stream ==
    /\ Requested
    /\ argument[1].streamed
    /\ value # None
    /\ HandedOn(value[1].status_code)
    /\ returned = None
    /\ value' = Some([value[1] EXCEPT !.is_read = TRUE])
    /\ log' = log \o <<"yield", "_process_streamed_response">>
    /\ returned' = Some(_process_streamed_response(value[1].body))
    /\ UNCHANGED <<provider, argument, accumulators>>
    /\ UNCHANGED <<received, messages, tools, allow_text_result, model_settings,
                   request_data, parameters_json_schema, simplified>>
    /\ UNCHANGED streamVars

InitTransport ==
    /\ argument \in {Some([function |-> "_make_request", streamed |-> streamed]) :
                        streamed \in BOOLEAN}
    /\ provider = "gemini"
    /\ value = None
    /\ log = <<>>
    /\ accumulators = <<>>
    /\ NoCall
    /\ NoStream

NextTransport ==
    \/ Gemini_http_client_stream
    \/ Gemini_aread
    \/ Gemini_raise
    \/ Gemini_request
    \/ Gemini_request_stream

SpecTransport == InitTransport /\ [][NextTransport]_vars

\* The step is one the log holds, at a position before the given one.
LoggedBefore(step, position) == \E i \in 1..(position - 1) : log[i] = step

\* C25: of a response whose status is not 200 the body is read to its end
\* before UnexpectedModelBehavior is raised, and the response is never
\* yielded to request or request_stream: neither _process_response nor
\* _process_streamed_response gets it, and the caller gets no response and
\* no accumulator.
C25_ErrorBodyReadThenRaisedNeverHandedOn ==
    (Requested /\ value # None /\ value[1].status_code # 200) =>
        /\ \A i \in 1..Len(log) :
              /\ log[i] \notin {"yield", "_process_response", "_process_streamed_response"}
              /\ log[i] = "raise" => LoggedBefore("aread", i) /\ value[1].is_read
        /\ returned # None => HasRaised(returned)
        /\ (returned # None /\ returned[1] = Raised("UnexpectedModelBehavior"))
              => log = <<"POST", "aread", "raise">>

C25_Witness_ServerErrorRaised ==
    /\ Requested
    /\ value # None
    /\ value[1].status_code = 500
    /\ value[1].is_read
    /\ returned = Some(Raised("UnexpectedModelBehavior"))
    /\ log = <<"POST", "aread", "raise">>

(***************************************************************************)
(* Two exchanges, each with an accumulator of its own over a stream of its *)
(* own, driven in any interleaving.  An accumulator is a dataclass         *)
(* instance: its fields are set by its constructor, the list of            *)
(* OpenAIStreamTextResponse._buffer and the Cost of the Gemini             *)
(* accumulators by a default_factory, and __anext__ and get read and       *)
(* write self alone.  The variables of the streaming specification are     *)
(* the fields of the exchange in hand; accumulators holds the other        *)
(* exchange as it was left.                                                *)
(***************************************************************************)
Fields ==
    [provider |-> provider, phase |-> phase, signal |-> signal, error |-> error,
     _cost |-> _cost, _response |-> _response, consumed |-> consumed, _first |-> _first,
     _buffer |-> _buffer, _delta_tool_calls |-> _delta_tool_calls, _stream |-> _stream,
     wire |-> wire, sent |-> sent, _json_content |-> _json_content,
     _position |-> _position, out |-> out, reported |-> reported, lastText |-> lastText,
     lastResponse |-> lastResponse, gets |-> gets]

\* The streams of the exchanges: one of each accumulator.
PairStreams ==
    <<[provider |-> "openai",
       _response |-> <<ContentChunk("Hello"), ContentChunk(" world")>>,
       wire |-> <<>>],
      [provider |-> "openai",
       _response |-> <<ToolChunk(<<FragName0>>), ToolChunk(<<FragArgs0>>), UsageChunk>>,
       wire |-> <<>>],
      [provider |-> "gemini", _response |-> <<>>,
       wire |-> <<_GeminiResponse(<<PartWorld>>, Some(MetaA))>>],
      [provider |-> "gemini", _response |-> <<>>,
       wire |-> <<_GeminiResponse(<<PartCallF>>, Some(MetaB))>>]>>

\* The fields of an exchange before its stream is primed.
NewExchange(stream) ==
    [provider |-> stream.provider, phase |-> "priming", signal |-> "none", error |-> "",
     _cost |-> ZeroCost, _response |-> stream._response, consumed |-> 0, _first |-> None,
     _buffer |-> <<>>, _delta_tool_calls |-> <<>>,
     _stream |-> (IF stream.provider = "gemini" THEN dump_json(stream.wire) ELSE <<>>),
     wire |-> stream.wire, sent |-> 0, _json_content |-> <<>>, _position |-> 0,
     out |-> <<>>, reported |-> <<>>, lastText |-> <<>>, lastResponse |-> <<>>,
     gets |-> <<>>]

\* The buffers are those of the exchange in hand: a list and a bytearray
\* that every instance shares.
Resumed_sharing_buffers(saved) ==
    [saved EXCEPT !._buffer = _buffer, !._json_content = _json_content]

\* The fields an exchange is resumed with: those it was left with.
Resumed(saved) == saved

\* The other exchange is taken in hand.
PairSwitch ==
    /\ accumulators # <<>>
    /\ LET resumed == Resumed(accumulators[1].fields)
       IN /\ provider' = resumed.provider
          /\ phase' = resumed.phase
          /\ signal' = resumed.signal
          /\ error' = resumed.error
          /\ _cost' = resumed._cost
          /\ _response' = resumed._response
          /\ consumed' = resumed.consumed
          /\ _first' = resumed._first
          /\ _buffer' = resumed._buffer
          /\ _delta_tool_calls' = resumed._delta_tool_calls
          /\ _stream' = resumed._stream
          /\ wire' = resumed.wire
          /\ sent' = resumed.sent
          /\ _json_content' = resumed._json_content
          /\ _position' = resumed._position
          /\ out' = resumed.out
          /\ reported' = resumed.reported
          /\ lastText' = resumed.lastText
          /\ lastResponse' = resumed.lastResponse
          /\ gets' = resumed.gets
    /\ accumulators' = <<[exchange |-> 3 - accumulators[1].exchange, fields |-> Fields]>>
    /\ UNCHANGED <<argument, value, log>>
    /\ UNCHANGED callVars

InitPair ==
    /\ \E mine \in 1..Len(PairStreams), other \in 1..Len(PairStreams) :
          /\ accumulators = <<[exchange |-> 2, fields |-> NewExchange(PairStreams[other])]>>
          /\ provider = NewExchange(PairStreams[mine]).provider
          /\ _response = NewExchange(PairStreams[mine])._response
          /\ wire = NewExchange(PairStreams[mine]).wire
          /\ _stream = NewExchange(PairStreams[mine])._stream
    /\ phase = "priming"
    /\ signal = "none"
    /\ error = ""
    /\ _cost = ZeroCost
    /\ consumed = 0
    /\ _first = None
    /\ _buffer = <<>>
    /\ _delta_tool_calls = <<>>
    /\ sent = 0
    /\ _json_content = <<>>
    /\ _position = 0
    /\ out = <<>>
    /\ reported = <<>>
    /\ lastText = <<>>
    /\ lastResponse = <<>>
    /\ gets = <<>>
    /\ argument = None
    /\ value = None
    /\ log = <<>>
    /\ NoCall

NextPair ==
    \/ OpenAIPrime
    \/ OpenAIStreamTextResponse_anext
    \/ \E final \in BOOLEAN : OpenAIStreamTextResponse_get(final)
    \/ OpenAIStreamStructuredResponse_anext
    \/ \E final \in BOOLEAN : OpenAIStreamStructuredResponse_get(final)
    \/ GeminiPrime
    \/ GeminiStreamTextResponse_anext
    \/ \E final \in BOOLEAN : GeminiStreamTextResponse_get(final)
    \/ GeminiStreamStructuredResponse_anext
    \/ \E final \in BOOLEAN : GeminiStreamStructuredResponse_get(final)
    \/ PairSwitch

SpecPair == InitPair /\ [][NextPair]_vars

\* The exchange in hand.
InHand == 3 - accumulators[1].exchange

\* What the exchange in hand holds was made of its own stream alone.
OfItsOwnStream ==
    /\ provider = "gemini" => _json_content = SubSeq(_stream, 1, sent)
    /\ (provider = "openai" /\ phase = "text")
          => out \o _buffer \o Pending = ContentDeltas(Delivered)
    /\ (provider = "openai" /\ phase = "structured")
          => _delta_tool_calls =
                MergeToolCalls(DictOf(Fragments(<<_response[Classifier]>>)),
                               Fragments(SubSeq(_response, Classifier + 1, consumed)))

\* C26: of two exchanges driven in any interleaving, a step of one leaves
\* every field of the other as it was, an exchange is resumed with exactly
\* the fields it was left with, and the fragments, buffers and tool calls
\* an exchange holds are those of its own stream; each step being a
\* function of the fields of its exchange, what an exchange yields is what
\* it yields when driven alone.
C26_ExchangesShareNoState ==
    /\ [](accumulators # <<>> => OfItsOwnStream)
    /\ [][accumulators # <<>> =>
            IF InHand' = InHand
            THEN accumulators' = accumulators
            ELSE /\ Fields' = accumulators[1].fields
                 /\ accumulators'[1].fields = Fields]_vars

C26_Witness_BothHalfwayThrough ==
    /\ accumulators # <<>>
    /\ InHand = 1
    /\ provider = "openai"
    /\ phase = "text"
    /\ out = <<"Hello">>
    /\ consumed = 2
    /\ accumulators[1].fields.provider = "gemini"
    /\ accumulators[1].fields.phase = "text"
    /\ accumulators[1].fields.sent > 0
    /\ accumulators[1].fields.out # <<>>

(***************************************************************************)
(* C27.  Each provider's builder consumes a tool call of a ModelResponse   *)
(* whose args are in either representation: building the request never     *)
(* fails on the representation of the args.                                *)
(***************************************************************************)
C27_EitherArgsRepresentationConsumed ==
    (request_data # None /\ IsRaised(request_data[1]))
        => request_data[1].raised # "AssertionError"

C27_Witness_GeminiGivenArgsJson ==
    /\ provider = "gemini"
    /\ messages = <<ModelResponse(<<ToolCallPart_from_json("f", "{x}", None)>>)>>
    /\ request_data = Some(Raised("AssertionError"))

\* The elements a get of the Gemini text accumulator took up in this step.
TakenUp == SubSeq(reported', Len(reported) + 1, Len(reported'))

RECURSIVE PartsOfElements(_)
PartsOfElements(indices) ==
    IF indices = <<>> THEN <<>>
    ELSE wire[Head(indices)].parts \o PartsOfElements(Tail(indices))

(***************************************************************************)
(* C28.  Gemini text stream: a get that takes up an element with a part    *)
(* that is not text fails with UnexpectedModelBehavior at that element,    *)
(* and yields no text of it: what it yields comes from the elements taken  *)
(* up before it, which are all text.                                       *)
(***************************************************************************)
C28_NonTextElementFailsWhole ==
    [][(provider = "gemini" /\ phase = "text" /\ Len(reported') > Len(reported)) =>
          /\ \A k \in 1..Len(TakenUp) :
                ~_all_text_parts(wire[TakenUp[k]].parts)
                    => k = Len(TakenUp) /\ error' = "UnexpectedModelBehavior"
          /\ error' = "UnexpectedModelBehavior" =>
                /\ ~_all_text_parts(wire[Last(TakenUp)].parts)
                /\ Len(lastText') <= Len(PartsOfElements(Front(TakenUp)))
                /\ Len(TakenUp) = 1 => lastText' = <<>>
                /\ out' = out \o lastText']_vars

C28_Witness_TextThenCallInOneElement ==
    /\ provider = "gemini"
    /\ phase = "text"
    /\ wire = <<_GeminiResponse(<<PartHello>>, Some(MetaA)),
                _GeminiResponse(<<PartHello, PartCallF>>, Some(MetaB))>>
    /\ reported = <<1, 2>>
    /\ error = "UnexpectedModelBehavior"
    /\ out = <<"Hello">>

(***************************************************************************)
(* OpenAI streams that mix content and tool calls, within one turn and     *)
(* within one chunk.                                                       *)
(***************************************************************************)
BothChunk == Chunk(None, <<Choice(Some("Hi"), Some(<<FragFull1>>), None)>>)

MixedStreams ==
    SeqsUpTo({ContentChunk("Hello"), ToolChunk(<<FragName0>>), ToolChunk(<<FragArgs0>>),
              BothChunk, FinishChunk}, MaxChunks + 1)

InitMixed ==
    /\ provider = "openai"
    /\ phase = "priming"
    /\ signal = "none"
    /\ error = ""
    /\ _cost = ZeroCost
    /\ _response \in MixedStreams
    /\ wire = <<>>
    /\ _stream = <<>>
    /\ consumed = 0
    /\ _first = None
    /\ _buffer = <<>>
    /\ _delta_tool_calls = <<>>
    /\ sent = 0
    /\ _json_content = <<>>
    /\ _position = 0
    /\ out = <<>>
    /\ reported = <<>>
    /\ lastText = <<>>
    /\ lastResponse = <<>>
    /\ gets = <<>>
    /\ NoCall
    /\ NoPure

NextMixed ==
    \/ OpenAIPrime
    \/ OpenAIStreamTextResponse_anext
    \/ \E final \in BOOLEAN : OpenAIStreamTextResponse_get(final)
    \/ OpenAIStreamStructuredResponse_anext
    \/ \E final \in BOOLEAN : OpenAIStreamStructuredResponse_get(final)

SpecMixed == InitMixed /\ [][NextMixed]_vars

\* The chunks that carry no content.
RECURSIVE WithoutContent(_)
WithoutContent(chunks) ==
    IF chunks = <<>> THEN <<>>
    ELSE (IF Head(chunks).choices # <<>> /\ Head(chunks).choices[1].delta.content # None
          THEN <<>> ELSE <<Head(chunks)>>)
         \o WithoutContent(Tail(chunks))

\* The chunk carries content.
CarriesContent(n) ==
    _response[n].choices # <<>> /\ _response[n].choices[1].delta.content # None

(***************************************************************************)
(* C29.  The kind priming saw first stays.  Of a stream classified         *)
(* structured no __anext__ folds content: the accumulator holds no text,   *)
(* a chunk that carries content ends the stream in an error with nothing   *)
(* of it folded, and every part get returns is a ToolCallPart.  Of a       *)
(* stream classified text get yields the content deltas alone: no tool     *)
(* call is kept and no response part is made.                              *)
(***************************************************************************)
C29_FirstSeenKindIsAuthoritative ==
    /\ (provider = "openai" /\ phase = "structured") =>
          /\ _first = None /\ _buffer = <<>> /\ out = <<>> /\ lastText = <<>>
          /\ \A i \in 1..Len(lastResponse) : lastResponse[i].part_kind = "tool-call"
          /\ _delta_tool_calls =
                MergeToolCalls(DictOf(Fragments(<<_response[Classifier]>>)),
                               Fragments(WithoutContent(
                                   SubSeq(_response, Classifier + 1, consumed))))
          /\ \A n \in (Classifier + 1)..consumed :
                CarriesContent(n) => n = consumed /\ signal = "error"
    /\ (provider = "openai" /\ phase = "text") =>
          /\ out \o _buffer \o Pending = ContentDeltas(Delivered)
          /\ _delta_tool_calls = <<>>
          /\ lastResponse = <<>>

C29_Witness_ContentAfterToolCalls ==
    /\ provider = "openai"
    /\ phase = "structured"
    /\ _response = <<ToolChunk(<<FragName0>>), ToolChunk(<<FragArgs0>>), BothChunk>>
    /\ consumed = 3
    /\ signal = "error"
    /\ Len(lastResponse) = 1

\* An __anext__ of an OpenAI accumulator takes a chunk off the stream.
TakesChunk ==
    /\ provider = "openai"
    /\ phase \in {"text", "structured"}
    /\ consumed' = consumed + 1

\* The chunk taken carries a finish reason and no content.
TerminalChunk ==
    LET chunk == _response[consumed']
    IN /\ chunk.choices # <<>>
       /\ chunk.choices[1].finish_reason # None
       /\ chunk.choices[1].delta.content = None

\* C30 as the specification states it: an __anext__ that takes the chunk
\* carrying the finish reason and no content signals the end of the stream,
\* in either accumulator.
C30_EndSignalledAtFinishChunk ==
    [][(TakesChunk /\ TerminalChunk) => signal' = "end"]_vars

(***************************************************************************)
(* C30.  The end of an OpenAI stream is signalled apart from an error: no  *)
(* error is recorded with it.  The structured accumulator signals it on    *)
(* the chunk that carries the finish reason.  The text accumulator takes   *)
(* that chunk as any other, folding nothing and returning normally, and    *)
(* signals the end on a chunk without choices or when the stream is        *)
(* exhausted.                                                              *)
(***************************************************************************)
C30_EndAtFinishChunkWhenStructured ==
    /\ []((provider = "openai" /\ signal = "end") =>
              /\ error = ""
              /\ \/ consumed = Len(_response)
                 \/ _response[consumed].choices = <<>>
                 \/ phase = "structured" /\ _response[consumed].choices[1].finish_reason # None)
    /\ [][TakesChunk =>
              /\ TerminalChunk =>
                    IF phase = "structured"
                    THEN signal' = "end" /\ error' = ""
                    ELSE signal' = "ok" /\ error' = "" /\ _buffer' = _buffer
              /\ _response[consumed'].choices = <<>> => signal' = "end" /\ error' = ""]_vars

C30_Witness_TextGoesOnAfterFinish ==
    /\ provider = "openai"
    /\ phase = "text"
    /\ consumed = 2
    /\ _response = <<ContentChunk("Hello"), FinishChunk, UsageChunk>>
    /\ signal = "ok"
    /\ out = <<"Hello">>

\* The first of the fragments that carries the index.
FirstFragment(frags, index) ==
    frags[CHOOSE n \in 1..Len(frags) :
              /\ frags[n].index = index
              /\ \A m \in 1..(n - 1) : frags[m].index # index]

\* The fragments of the chunks taken so far, the classifying chunk first.
FragmentsSoFar == Fragments(SubSeq(_response, Classifier, consumed))

(***************************************************************************)
(* C31.  OpenAI structured stream: the identifier of every accumulated     *)
(* tool call is the identifier of the first fragment that carried its      *)
(* index, no __anext__ changes the identifier of a call it already holds,  *)
(* and the tool_call_id of every part get returns is the identifier of     *)
(* the first fragment of an index.                                         *)
(***************************************************************************)
C31_IdentifierOfFirstFragmentKept ==
    /\ []((provider = "openai" /\ phase = "structured") =>
             /\ \A k \in 1..Len(_delta_tool_calls) :
                   _delta_tool_calls[k].id
                       = FirstFragment(FragmentsSoFar, _delta_tool_calls[k].index).id
             /\ \A p \in 1..Len(lastResponse) :
                   \E n \in 1..Len(FragmentsSoFar) :
                       lastResponse[p].tool_call_id
                           = FirstFragment(FragmentsSoFar, FragmentsSoFar[n].index).id)
    /\ [][(provider = "openai" /\ phase = "structured") =>
             \A k \in 1..Len(_delta_tool_calls) :
                 /\ Len(_delta_tool_calls') >= k
                 /\ _delta_tool_calls'[k].index = _delta_tool_calls[k].index
                 /\ _delta_tool_calls'[k].id = _delta_tool_calls[k].id]_vars

\* The identifier recorded from the classifying chunk alone is that of the
\* last fragment of the index; every later fragment leaves it as it is.
C31_IdentifierNeverChangedByAnext ==
    [][(provider = "openai" /\ phase = "structured") =>
          \A k \in 1..Len(_delta_tool_calls) :
              /\ Len(_delta_tool_calls') >= k
              /\ _delta_tool_calls'[k].index = _delta_tool_calls[k].index
              /\ _delta_tool_calls'[k].id = _delta_tool_calls[k].id]_vars

C31_Witness_IdentifierOfFirstFragmentLost ==
    /\ provider = "openai"
    /\ phase = "structured"
    /\ _response = <<ToolChunk(<<FragName0, FragArgs0>>), ToolChunk(<<FragMore0>>)>>
    /\ consumed = 2
    /\ Len(_delta_tool_calls) = 1
    /\ _delta_tool_calls[1].id = None
    /\ lastResponse # <<>>
    /\ lastResponse[1].tool_call_id = None

(***************************************************************************)
(* A Gemini text stream driven as a caller that takes what has arrived     *)
(* drives it: __anext__ and get(final=False) in any order, then one        *)
(* get(final=True) once the whole body has arrived, and nothing after it.  *)
(***************************************************************************)
Finalised == gets # <<>> /\ Last(gets)

OrderedAnext ==
    /\ ~Finalised
    /\ GeminiStreamTextResponse_anext

OrderedGet ==
    /\ ~Finalised
    /\ GeminiStreamTextResponse_get(FALSE)

OrderedFinalGet ==
    /\ ~Finalised
    /\ sent = Len(_stream)
    /\ GeminiStreamTextResponse_get(TRUE)

InitOrdered == Init /\ provider = "gemini"

NextOrdered ==
    \/ GeminiPrime
    \/ OrderedAnext
    \/ OrderedGet
    \/ OrderedFinalGet

SpecOrdered == InitOrdered /\ [][NextOrdered]_vars

\* The elements 1 .. n, in array order.
UpTo(n) == [i \in 1..n |-> i]

(***************************************************************************)
(* C32.  Gemini text stream of text elements, driven with __anext__ and    *)
(* get(final=False) and then one get(final=True) on the complete array:    *)
(* at every point the elements reported are the first ones of the array,   *)
(* each once and in order, and the fragments yielded are their texts; a    *)
(* non-final get leaves the last element present unreported, and after the *)
(* final get every element has been reported.                              *)
(***************************************************************************)
C32_EveryElementOnceInOrder ==
    (provider = "gemini" /\ phase = "text" /\ \A n \in 1..Len(wire) : WireIsText(wire[n])) =>
        /\ error = ""
        /\ reported = UpTo(Len(reported))
        /\ out = WireTexts(PartsOfElements(reported))
        /\ ~Finalised => Len(reported) < Opened \/ reported = <<>>
        /\ Finalised => reported = UpTo(Len(wire))

C32_Witness_TwoElementsThenFinal ==
    /\ provider = "gemini"
    /\ phase = "text"
    /\ wire = <<_GeminiResponse(<<PartHello>>, Some(MetaA)),
                _GeminiResponse(<<PartWorld, PartHello>>, None)>>
    /\ gets = <<FALSE, TRUE>>
    /\ lastText = <<" world", "Hello">>
    /\ out = <<"Hello", " world", "Hello">>

\* Number of top-level elements a partial parse of the buffer returns.
ParseableElements == Len(from_json(_json_content, "on").value)

GeminiText == provider = "gemini" /\ phase = "text"

(***************************************************************************)
(* C33.  Gemini text accumulator: _position stays between 0 and the number *)
(* of top-level elements that can be parsed from the buffer, and no step   *)
(* makes it smaller.                                                       *)
(***************************************************************************)
C33_PositionBoundedAndNeverDecreases ==
    /\ [](GeminiText => (0 <= _position /\ _position <= ParseableElements))
    /\ [][GeminiText => _position' >= _position]_vars

\* The bounds alone.
C33_PositionWithinParseableElements ==
    GeminiText => (0 <= _position /\ _position <= ParseableElements)

\* A non-final get after the final one has moved the position back from 1
\* to 0 over a complete array of one element.
C33_Witness_PositionMovedBack ==
    /\ GeminiText
    /\ wire = <<_GeminiResponse(<<PartHello>>, Some(MetaA))>>
    /\ sent = Len(_stream)
    /\ gets = <<TRUE, FALSE>>
    /\ reported = <<1>>
    /\ _position = 0

(***************************************************************************)
(* The text accumulators with get as the generator it is: the caller pulls *)
(* k fragments from the sequence get returns and drops it.  The body of a  *)
(* generator runs only as far as the caller pulls; a pull past the last    *)
(* fragment runs it to its end.                                            *)
(***************************************************************************)
MaxPulls == MaxParts * MaxElems + 1

\* OpenAIStreamTextResponse.get: `yield from self._buffer`, then
\* `self._buffer.clear()` once the buffer has been yielded to its end.
OpenAIBufferAfter(k) == IF k > Len(_buffer) THEN <<>> ELSE _buffer

OpenAIStreamTextResponse_get_taking(final, k) ==
    /\ provider = "openai"
    /\ phase = "text"
    /\ signal # "error"
    /\ k \in 1..(Len(_buffer) + 1)
    /\ Len(out) < Len(ContentDeltas(_response)) + MaxRepeats
    /\ LET taken == SubSeq(_buffer, 1, IF k > Len(_buffer) THEN Len(_buffer) ELSE k)
       IN /\ lastText' = taken
          /\ out' = out \o taken
    /\ _buffer' = OpenAIBufferAfter(k)
    /\ gets' = Noted(final)
    /\ UNCHANGED <<provider, phase, signal, error, _cost, _response, consumed, _first,
                   _delta_tool_calls, lastResponse>>
    /\ UNCHANGED gVars
    /\ UNCHANGED callVars
    /\ UNCHANGED pureVars

\* The for loop of GeminiStreamTextResponse.get, suspended at its k-th yield.
RECURSIVE TextLoop_taking(_, _, _)
TextLoop_taking(acc, rs, k) ==
    IF rs = <<>> \/ acc.error # "" \/ Len(acc.yielded) >= k
    THEN [acc EXCEPT !.yielded = SubSeq(@, 1, IF Len(@) > k THEN k ELSE Len(@))]
    ELSE LET r == Head(rs)
             added == [acc EXCEPT !.cost = CostAdd(@, _metadata_as_cost(r)),
                                  !.taken = @ + 1]
             parts == r.candidates[1].content.parts
         IN TextLoop_taking(IF _all_text_parts(parts)
                            THEN [added EXCEPT !.yielded = @ \o Texts(parts)]
                            ELSE [added EXCEPT !.error = "UnexpectedModelBehavior"],
                            Tail(rs), k)

GeminiStreamTextResponse_get_taking(final, k) ==
    /\ provider = "gemini"
    /\ phase = "text"
    /\ ~Finalised
    /\ final => sent = Len(_stream)
    /\ k \in 1..MaxPulls
    /\ gets' = Noted(final)
    /\ UNCHANGED <<provider, phase, signal, _stream, wire, sent, _json_content,
                   lastResponse>>
    /\ UNCHANGED oaVars
    /\ UNCHANGED callVars
    /\ UNCHANGED pureVars
    /\ LET all_items == from_json(_json_content, IF final THEN "off" ELSE "on")
           new_items == PySlice(all_items.value, _position,
                                IF final THEN None ELSE Some(0 - 1))
           new_responses == validate_python(new_items,
                                            IF final THEN "off" ELSE "trailing-strings")
           start == PyIndex(Len(all_items.value), _position)
           loop == TextLoop_taking([cost |-> _cost, yielded |-> <<>>, taken |-> 0,
                                    error |-> ""],
                                   new_responses.value, k)
       IN IF ~all_items.ok
          THEN /\ error' = "ValueError"
               /\ lastText' = <<>>
               /\ _position' = PositionAfterParseError(final)
               /\ UNCHANGED <<_cost, reported, out>>
          ELSE /\ _position' = TextGetPosition(all_items.value, final)
               /\ IF ~new_responses.ok
                  THEN /\ error' = "ValidationError"
                       /\ lastText' = <<>>
                       /\ UNCHANGED <<_cost, reported, out>>
                  ELSE /\ error' = loop.error
                       /\ _cost' = loop.cost
                       /\ lastText' = loop.yielded
                       /\ out' = out \o loop.yielded
                       /\ reported' = reported \o [i \in 1..loop.taken |-> start + i]

InitLazy == Init

NextLazy ==
    \/ OpenAIPrime
    \/ OpenAIStreamTextResponse_anext
    \/ \E final \in BOOLEAN, k \in 1..MaxPulls : OpenAIStreamTextResponse_get_taking(final, k)
    \/ GeminiPrime
    \/ OrderedAnext
    \/ \E final \in BOOLEAN, k \in 1..MaxPulls : GeminiStreamTextResponse_get_taking(final, k)

SpecLazy == InitLazy /\ [][NextLazy]_vars

RECURSIVE IsSubsequence(_, _)
IsSubsequence(a, b) ==
    IF a = <<>> THEN TRUE
    ELSE IF b = <<>> THEN FALSE
    ELSE IF Head(a) = Head(b) THEN IsSubsequence(Tail(a), Tail(b))
    ELSE IsSubsequence(a, Tail(b))

IsPrefix(a, b) == Len(a) <= Len(b) /\ a = SubSeq(b, 1, Len(a))

\* Gemini: every element is taken up by one get at most, and what has been
\* yielded is drawn, in order, from the texts of the elements taken up.
C34_GeminiFragmentAtMostOnce ==
    (GeminiText /\ \A n \in 1..Len(wire) : WireIsText(wire[n])) =>
        /\ \A i, j \in 1..Len(reported) : i < j => reported[i] < reported[j]
        /\ IsSubsequence(out, WireTexts(PartsOfElements(reported)))

\* OpenAI: what has been yielded is the content fragments received, in
\* order, as far as they have been yielded.
C34_OpenAIFragmentAtMostOnce ==
    (provider = "openai" /\ phase = "text") => IsPrefix(out, ContentDeltas(Delivered))

(***************************************************************************)
(* C34.  Text accumulators of both providers, with the caller free to stop *)
(* pulling from the sequence get returns before its end: no text fragment  *)
(* is yielded a second time.                                               *)
(***************************************************************************)
C34_FragmentAtMostOnceWhenAbandoned ==
    C34_GeminiFragmentAtMostOnce /\ C34_OpenAIFragmentAtMostOnce

\* One content fragment received, the first get dropped after that
\* fragment, and the next get has yielded it again.
C34_Witness_FragmentYieldedTwice ==
    /\ provider = "openai"
    /\ phase = "text"
    /\ Len(ContentDeltas(Delivered)) = 1
    /\ out = ContentDeltas(Delivered) \o ContentDeltas(Delivered)
    /\ _buffer = ContentDeltas(Delivered)

\* Gemini: a get dropped after the first of two fragments of an element;
\* the second fragment is never yielded.
C34_Witness_GeminiRestSkipped ==
    /\ GeminiText
    /\ wire = <<_GeminiResponse(<<PartHello>>, Some(MetaA)),
                _GeminiResponse(<<PartWorld, PartHello>>, None)>>
    /\ Finalised
    /\ reported = <<1, 2>>
    /\ out = <<"Hello", " world">>

\* An optional string that a later optional string begins with.
OptionalPrefix(earlier, later) ==
    earlier = None \/ (later # None /\ StartsWith(later[1], earlier[1]))

(***************************************************************************)
(* C35.  OpenAI structured accumulator: over every step each call held     *)
(* stays held in its place with its index, and its name and arguments are  *)
(* prefixes of what they are afterwards; a step that takes no chunk (get)  *)
(* leaves the accumulated calls as they are, and a get that follows a get  *)
(* with no chunk between returns an equal response.                        *)
(***************************************************************************)
C35_StateOnlyGrowsAndGetLeavesIt ==
    [][(provider = "openai" /\ phase = "structured") =>
          /\ Len(_delta_tool_calls) <= Len(_delta_tool_calls')
          /\ \A n \in 1..Len(_delta_tool_calls) :
                /\ _delta_tool_calls'[n].index = _delta_tool_calls[n].index
                /\ OptionalPrefix(FieldOf(_delta_tool_calls[n], "name"),
                                  FieldOf(_delta_tool_calls'[n], "name"))
                /\ OptionalPrefix(FieldOf(_delta_tool_calls[n], "arguments"),
                                  FieldOf(_delta_tool_calls'[n], "arguments"))
          /\ consumed' = consumed => _delta_tool_calls' = _delta_tool_calls
          /\ (consumed' = consumed /\ lastResponse = StructuredItems(_delta_tool_calls))
                => lastResponse' = lastResponse]_vars

\* Two fragments of index 0 merged, and the response materialized from them.
C35_Witness_ArgumentsGrownThenMaterialized ==
    /\ provider = "openai"
    /\ phase = "structured"
    /\ _response = <<ToolChunk(<<FragName0, FragArgs0>>), ToolChunk(<<FragMore0>>)>>
    /\ consumed = 2
    /\ Len(_delta_tool_calls) = 1
    /\ lastResponse = StructuredItems(_delta_tool_calls)
    /\ lastResponse # <<>>

\* An accumulated call whose name and arguments have both arrived.
Ready(c) == FieldOf(c, "name") # None /\ FieldOf(c, "arguments") # None

(***************************************************************************)
(* C36.  OpenAI structured accumulator: the response a get returns has one *)
(* part for each accumulated call whose name and arguments are both known, *)
(* in the order of the calls, made of that name, those arguments and the   *)
(* call's identifier; a call with no name or no arguments yet has no part. *)
(***************************************************************************)
C36_MaterializedOnceNameAndArgumentsKnown ==
    [][(provider = "openai" /\ phase = "structured" /\ lastResponse' # lastResponse) =>
          LET ready == SelectSeq(_delta_tool_calls, Ready)
          IN /\ Len(lastResponse') = Len(ready)
             /\ \A k \in 1..Len(ready) :
                   /\ lastResponse'[k].tool_name = ready[k].function[1].name[1]
                   /\ lastResponse'[k].args = [args_json |-> ready[k].function[1].arguments[1]]
                   /\ lastResponse'[k].tool_call_id = ready[k].id]_vars

\* Index 0 has its name only, index 1 has both: the response holds the one
\* part of index 1.
C36_Witness_OneOfTwoCallsMaterialized ==
    /\ provider = "openai"
    /\ phase = "structured"
    /\ Len(_delta_tool_calls) = 2
    /\ \E n \in 1..2 : ~Ready(_delta_tool_calls[n]) /\ FieldOf(_delta_tool_calls[n], "name") # None
    /\ Len(lastResponse) = 1
    /\ lastResponse[1].tool_name = "bar"

(***************************************************************************)
(* C37.  Gemini text accumulator: a get that fails because the buffer is   *)
(* not complete JSON leaves the position, the cost, the buffer and the     *)
(* fragments yielded so far as they were, so the gets that follow start    *)
(* from the state the failed call found.                                   *)
(***************************************************************************)
C37_FailedFinalGetLeavesPositionAndCost ==
    [][(GeminiText /\ error' = "ValueError") =>
          /\ _position' = _position
          /\ _cost' = _cost
          /\ _json_content' = _json_content
          /\ UNCHANGED <<_stream, wire, sent, reported, out>>]_vars

\* The first element has been yielded by a non-final get; a final get on
\* the array still open after its second element has failed.
C37_Witness_FinalGetOnOpenArray ==
    /\ GeminiText
    /\ error = "ValueError"
    /\ gets = <<FALSE, TRUE>>
    /\ sent < Len(_stream)
    /\ _position = 1
    /\ reported = <<1>>
    /\ _cost # ZeroCost
    /\ lastText = <<>>

(***************************************************************************)
(* _GeminiJsonSchema._simplify with the interpreter's call stack: every    *)
(* call of _simplify, _object and _array takes a frame, and a call with no *)
(* frame left is a RecursionError.  RecursionLimit is the recursion limit  *)
(* scaled to the schemas considered: two frames for every level of the     *)
(* root and of each definition.                                            *)
(***************************************************************************)
RecursionLimit == 4 * MaxDepth + 4

\* A cycle check that finds no key.
OnStack_never(key, refs_stack) == FALSE

\* if key in refs_stack
OnStack(key, refs_stack) == \E i \in 1..Len(refs_stack) : refs_stack[i] = key

RECURSIVE _simplify_within(_, _, _, _), _simplify_each_within(_, _, _, _)
RECURSIVE _object_within(_, _, _, _), _array_within(_, _, _, _)

_simplify_each_within(values, defs, refs_stack, frames) ==
    IF values = <<>> THEN Ok([schemas |-> <<>>, defs |-> defs])
    ELSE LET first == _simplify_within(Head(values), defs, refs_stack, frames)
         IN IF IsRaised(first) THEN first
            ELSE LET rest == _simplify_each_within(Tail(values), first.ok.defs,
                                                   refs_stack, frames)
                 IN IF IsRaised(rest) THEN rest
                    ELSE Ok([schemas |-> <<first.ok.schema>> \o rest.ok.schemas,
                             defs |-> rest.ok.defs])

_object_within(node, defs, refs_stack, frames) ==
    IF frames = 0 THEN Raised("RecursionError")
    ELSE IF node.additionalProperties # None /\ node.additionalProperties[1]
    THEN Raised("UserError")
    ELSE LET popped == [node EXCEPT !.additionalProperties = None]
         IN IF popped.properties # None /\ popped.properties[1] # <<>>
            THEN LET values == _simplify_each_within(popped.properties[1], defs,
                                                     refs_stack, frames - 1)
                 IN IF IsRaised(values) THEN values
                    ELSE Simplified([popped EXCEPT !.properties = Some(values.ok.schemas)],
                                    values.ok.defs)
            ELSE Simplified(popped, defs)

_array_within(node, defs, refs_stack, frames) ==
    IF frames = 0 THEN Raised("RecursionError")
    ELSE
    LET prefix_items ==
            IF node.prefixItems # None /\ node.prefixItems[1] # <<>>
            THEN _simplify_each_within(node.prefixItems[1], defs, refs_stack, frames - 1)
            ELSE Ok([schemas |-> <<>>, defs |-> defs])
    IN IF IsRaised(prefix_items) THEN prefix_items
       ELSE LET after == IF node.prefixItems # None /\ node.prefixItems[1] # <<>>
                         THEN [node EXCEPT !.prefixItems = Some(prefix_items.ok.schemas)]
                         ELSE node
            IN IF after.items # None
               THEN LET items_schema == _simplify_within(after.items[1], prefix_items.ok.defs,
                                                         refs_stack, frames - 1)
                    IN IF IsRaised(items_schema) THEN items_schema
                       ELSE Simplified([after EXCEPT !.items = Some(items_schema.ok.schema)],
                                       items_schema.ok.defs)
               ELSE Simplified(after, prefix_items.ok.defs)

ByType_within(node, defs, refs_stack, frames) ==
    IF node.type = Some("object") THEN _object_within(node, defs, refs_stack, frames)
    ELSE IF node.type = Some("array") THEN _array_within(node, defs, refs_stack, frames)
    ELSE Simplified(node, defs)

_simplify_within(node, defs, refs_stack, frames) ==
    IF frames = 0 THEN Raised("RecursionError")
    ELSE
    LET popped == [node EXCEPT !.title = None, !.default = None]
    IN IF popped.ref # None
       THEN LET key == RefKey(popped.ref[1])
            IN IF OnStack(key, refs_stack)
               THEN Raised("UserError")
               ELSE LET schema_def == _simplify_within(defs[key], defs,
                                                       Append(refs_stack, key), frames - 1)
                    IN IF IsRaised(schema_def) THEN schema_def
                       ELSE Simplified(Update([popped EXCEPT !.ref = None], schema_def.ok.schema),
                                       [schema_def.ok.defs EXCEPT ![key] = schema_def.ok.schema])
       ELSE IF popped.anyOf # None /\ popped.anyOf[1] # <<>>
       THEN LET any_of == _simplify_each_within(popped.anyOf[1], defs, refs_stack, frames - 1)
            IN IF IsRaised(any_of) THEN any_of
               ELSE LET n == Len(any_of.ok.schemas)
                        last == ByType_within(any_of.ok.schemas[n], any_of.ok.defs,
                                              refs_stack, frames - 1)
                    IN IF IsRaised(last) THEN last
                       ELSE Simplified(
                               [popped EXCEPT !.anyOf =
                                   Some([any_of.ok.schemas EXCEPT ![n] = last.ok.schema])],
                               last.ok.defs)
       ELSE ByType_within(popped, defs, refs_stack, frames - 1)

\* simplify() run with the call stack counted.
simplify_within(frames) ==
    LET done == _simplify_within(parameters_json_schema.schema,
                                 parameters_json_schema.defs, <<>>, frames)
    IN IF IsRaised(done) THEN done ELSE Ok(done.ok.schema)

\* A definition the root leads to refers to itself, directly or through others.
OnACycle(k) == k \in ReachedFrom(parameters_json_schema.defs[k])

(***************************************************************************)
(* C38.  Simplifying a schema never runs out of call stack, whatever $refs *)
(* the schema and its definitions hold: within the frames that the levels  *)
(* of the schema and of its definitions need, simplify has either given    *)
(* back a schema or failed with UserError, and the result is the one       *)
(* simplify gives.                                                         *)
(***************************************************************************)
C38_SimplifyEndsWithinItsFrames ==
    simplified # None =>
        /\ simplify_within(RecursionLimit) # Raised("RecursionError")
        /\ simplify_within(RecursionLimit) = simplified[1]
        /\ IsRaised(simplified[1]) => simplified[1] = Raised("UserError")

\* A cycle of two definitions, A -> B -> A, entered from the root.
C38_Witness_CycleOfTwoRejected ==
    /\ parameters_json_schema.schema = [Object EXCEPT !.properties = Some(<<Ref("A")>>)]
    /\ parameters_json_schema.defs = [A |-> Ref("B"), B |-> Ref("A")]
    /\ OnACycle("A")
    /\ simplified = Some(Raised("UserError"))

\* A definition that refers to itself.
C38_Witness_SelfReferenceRejected ==
    /\ parameters_json_schema.schema = Ref("B")
    /\ parameters_json_schema.defs.B = Ref("B")
    /\ simplified = Some(Raised("UserError"))

(***************************************************************************)
(* Schemas that refer to the definition A from two sibling positions: two  *)
(* properties, two members of anyOf, items and prefixItems, and items of   *)
(* one property beside another property.                                   *)
(***************************************************************************)
TwoProperties == [Object EXCEPT !.properties = Some(<<Ref("A"), Ref("A")>>)]
TwoBranches == [Schema EXCEPT !.anyOf = Some(<<Ref("A"), Ref("A")>>)]
ItemsAndPrefixItems ==
    [Array EXCEPT !.items = Some(Ref("A")), !.prefixItems = Some(<<Ref("A")>>)]
ItemsAndProperty ==
    [Object EXCEPT !.properties = Some(<<[Array EXCEPT !.items = Some(Ref("A"))], Ref("A")>>)]

SiblingSchemas == {TwoProperties, TwoBranches, ItemsAndPrefixItems, ItemsAndProperty}

InitSiblings ==
    /\ provider = "gemini"
    /\ parameters_json_schema \in
          [schema : SiblingSchemas,
           defs : [A : Schemas(MaxDepth), B : SchemaLeaves]]
    /\ simplified = None
    /\ received = None
    /\ returned = None
    /\ messages = <<>>
    /\ tools = <<>>
    /\ allow_text_result = TRUE
    /\ model_settings = None
    /\ request_data = None
    /\ NoStream
    /\ NoPure

NextSiblings == GeminiJsonSchema_simplify

SpecSiblings == InitSiblings /\ [][NextSiblings]_vars

\* The nodes of a simplified sibling schema that stood where the $refs were.
ReferencingPositions(root, result) ==
    CASE root = TwoProperties -> result.properties[1]
      [] root = TwoBranches -> result.anyOf[1]
      [] root = ItemsAndPrefixItems -> <<result.items[1], result.prefixItems[1][1]>>
      [] root = ItemsAndProperty -> <<result.properties[1][1].items[1], result.properties[1][2]>>

\* What a sole reference to A is simplified to.
SoleReference == _simplify(Ref("A"), parameters_json_schema.defs, <<>>)

(***************************************************************************)
(* C39 as stated.  A definition referenced from two sibling positions with *)
(* no cycle is not rejected, and every referencing position of the result  *)
(* holds it fully simplified: no $ref, no title and no default at any node *)
(* of it.                                                                  *)
(***************************************************************************)
C39_SiblingReferencesFullySimplified ==
    (/\ simplified # None
     /\ ~Cyclic
     /\ \A n \in AllNodes : n.additionalProperties # Some(TRUE)) =>
        /\ ~IsRaised(simplified[1])
        /\ LET at == ReferencingPositions(parameters_json_schema.schema, simplified[1].ok)
           IN \A i \in 1..Len(at) : \A n \in NodesOf(at[i]) :
                 n.ref = None /\ n.title = None /\ n.default = None

\* What the last member of anyOf is after the dispatch that follows the loop.
LastBranch ==
    IF IsRaised(SoleReference) THEN SoleReference
    ELSE ByType(SoleReference.ok.schema, SoleReference.ok.defs, <<>>)

\* The cycle check is per path: the schema is rejected only where a sole
\* reference to A is, and every referencing position holds what a sole
\* reference to A is simplified to; the last member of anyOf has also been
\* through the dispatch on its type.
C39_SiblingReferencesInlinedAsASoleOne ==
    simplified # None =>
        LET root == parameters_json_schema.schema
        IN /\ IsRaised(simplified[1]) <=>
                 (IsRaised(SoleReference) \/ (root = TwoBranches /\ IsRaised(LastBranch)))
           /\ ~IsRaised(simplified[1]) =>
                 LET at == ReferencingPositions(root, simplified[1].ok)
                 IN \A i \in 1..Len(at) :
                       at[i] = IF root = TwoBranches /\ i = Len(at)
                               THEN LastBranch.ok.schema
                               ELSE SoleReference.ok.schema

\* Two properties refer to A, an object that also has anyOf: both are
\* inlined with the title of A's property left in.
C39_Witness_TitleLeftAtBothPositions ==
    /\ parameters_json_schema.schema = TwoProperties
    /\ parameters_json_schema.defs.A =
          [Object EXCEPT !.anyOf = Some(<<String>>),
                         !.properties = Some(<<[String EXCEPT !.title = Some("T")]>>)]
    /\ simplified # None
    /\ ~IsRaised(simplified[1])
    /\ simplified[1].ok.properties[1][1].properties[1][1].title = Some("T")
    /\ simplified[1].ok.properties[1][2].properties[1][1].title = Some("T")

\* Two properties refer to A, which refers to B: both positions hold B's
\* string without its title.
C39_Witness_InlinedTwiceThroughB ==
    /\ parameters_json_schema.schema = TwoProperties
    /\ parameters_json_schema.defs = [A |-> Ref("B"), B |-> [String EXCEPT !.title = Some("T")]]
    /\ simplified = Some(Ok([Object EXCEPT !.properties = Some(<<String, String>>)]))

(***************************************************************************)
(* simple_projects/filemanager: the result validator of the file manager   *)
(* agent and the FileManagementTool it lets through.  A Path is its parts  *)
(* and whether it is absolute; pathlib keeps ".." parts as they are, the   *)
(* file system resolves them.  The file system is a root with the working  *)
(* directory /work, /work/sub and /work/f in it, and /other with /other/f  *)
(* beside it.                                                              *)
(***************************************************************************)
Path(absolute, parts) == [absolute |-> absolute, parts |-> parts]

pwd == Path(TRUE, <<"work">>)

Directories == {<<>>, <<"work">>, <<"work", "sub">>, <<"other">>}
Files == {<<"work", "f">>, <<"other", "f">>}

\* parent_folder_path / name: an absolute right operand replaces the left one.
Path_truediv(parent, name) ==
    IF name.absolute THEN name
    ELSE Path(parent.absolute, parent.parts \o name.parts)

\* The place in the file system a path leads to: a relative path starts at
\* the current directory of the process, ".." steps to the parent.
RECURSIVE Walked(_, _)
Walked(at, parts) ==
    IF parts = <<>> THEN at
    ELSE Walked(IF Head(parts) = ".."
                THEN (IF at = <<>> THEN at ELSE Front(at))
                ELSE Append(at, Head(parts)),
                Tail(parts))

Resolved(path) == Walked(IF path.absolute THEN <<>> ELSE pwd.parts, path.parts)

is_dir(path) == Resolved(path) \in Directories
is_file(path) == Resolved(path) \in Files
is_absolute(path) == path.absolute

\* PurePath.is_relative_to: a comparison of the parts as written.
is_relative_to(path, other) ==
    /\ path.absolute = other.absolute
    /\ Len(path.parts) >= Len(other.parts)
    /\ SubSeq(path.parts, 1, Len(other.parts)) = other.parts

FileManagementTool(name, type_of_action, type_of_item, parent_folder_path) ==
    [function |-> "FileManagementTool", name |-> name, type_of_action |-> type_of_action,
     type_of_item |-> type_of_item, parent_folder_path |-> parent_folder_path]

\* What the tool does to the file system when it is called: each operation
\* with the place it is done at.
Operation(op, path) == [op |-> op, at |-> Resolved(path)]

FileManagementTool_operations(tool) ==
    LET target == Path_truediv(tool.parent_folder_path, tool.name)
        item == tool.type_of_item
    IN CASE tool.type_of_action = "create" /\ item = "folder" ->
                <<Operation("mkdir", target)>>
         [] tool.type_of_action = "create" /\ item = "file" ->
                <<Operation("touch", target)>>
         [] tool.type_of_action = "delete" /\ item = "folder" ->
                <<Operation("is_dir", target)>>
                    \o (IF is_dir(target) THEN <<Operation("rmdir", target)>> ELSE <<>>)
         [] tool.type_of_action = "delete" /\ item = "file" ->
                <<Operation("is_file", target)>>
                    \o (IF is_file(target) THEN <<Operation("unlink", target)>> ELSE <<>>)
         [] tool.type_of_action = "read" /\ item = "folder" ->
                <<Operation("is_dir", target)>>
                    \o (IF is_dir(target) THEN <<Operation("iterdir", target)>> ELSE <<>>)
         [] tool.type_of_action = "read" /\ item = "file" ->
                <<Operation("is_file", target)>>
                    \o (IF is_file(target) THEN <<Operation("read_text", target)>> ELSE <<>>)

\* The result validator: ModelRetry, or the response handed on as it is.
validate_parent_folder_path ==
    /\ argument # None
    /\ argument[1].function = "FileManagementTool"
    /\ value = None
    /\ LET final_response == argument[1]
       IN value' = Some(IF ~is_dir(final_response.parent_folder_path)
                        THEN Raised("ModelRetry")
                        ELSE IF ~is_absolute(final_response.parent_folder_path)
                        THEN Raised("ModelRetry")
                        ELSE IF ~is_relative_to(final_response.parent_folder_path, pwd)
                        THEN Raised("ModelRetry")
                        ELSE Ok(final_response))
    /\ UNCHANGED <<provider, argument, log, accumulators>>
    /\ UNCHANGED callVars
    /\ UNCHANGED streamVars

\* actual_result(): the accepted tool is called.
FileManagementTool_call ==
    /\ argument # None
    /\ argument[1].function = "FileManagementTool"
    /\ value # None
    /\ ~IsRaised(value[1])
    /\ log = <<>>
    /\ log' = FileManagementTool_operations(value[1].ok)
    /\ UNCHANGED <<provider, argument, value, accumulators>>
    /\ UNCHANGED callVars
    /\ UNCHANGED streamVars

ToolNames ==
    {Path(FALSE, <<"f">>), Path(FALSE, <<"sub">>), Path(FALSE, <<"new">>),
     Path(FALSE, <<"..", "other">>), Path(FALSE, <<"..", "other", "f">>),
     Path(TRUE, <<"other", "f">>)}

ParentFolderPaths ==
    {pwd, Path(TRUE, <<"work", "sub">>), Path(TRUE, <<"other">>),
     Path(TRUE, <<"work", "..", "other">>), Path(FALSE, <<"sub">>),
     Path(TRUE, <<"work", "missing">>)}

InitFiles ==
    /\ argument \in {Some(FileManagementTool(name, type_of_action, type_of_item, parent)) :
                        name \in ToolNames, type_of_action \in {"create", "delete", "read"},
                        type_of_item \in {"folder", "file"}, parent \in ParentFolderPaths}
    /\ provider = "gemini"
    /\ value = None
    /\ log = <<>>
    /\ accumulators = <<>>
    /\ NoCall
    /\ NoStream

NextFiles ==
    \/ validate_parent_folder_path
    \/ FileManagementTool_call

SpecFiles == InitFiles /\ [][NextFiles]_vars

\* A place inside the working directory, or the working directory itself.
InsidePwd(at) == Len(at) >= Len(pwd.parts) /\ SubSeq(at, 1, Len(pwd.parts)) = pwd.parts

(***************************************************************************)
(* C40.  Every operation that a FileManagementTool accepted by the result  *)
(* validator does on the file system is done at a place inside the working *)
(* directory or at the working directory itself.                           *)
(***************************************************************************)
C40_EveryOperationInsidePwd ==
    \A i \in 1..Len(log) : InsidePwd(log[i].at)

\* A name of one part that is not ".." under a parent written without "..".
PlainTool(tool) ==
    /\ ~tool.name.absolute
    /\ Len(tool.name.parts) = 1
    /\ \A i \in 1..Len(tool.name.parts) : tool.name.parts[i] # ".."
    /\ \A i \in 1..Len(tool.parent_folder_path.parts) : tool.parent_folder_path.parts[i] # ".."

\* With a plain name under a parent written without "..", the operations of
\* an accepted tool stay inside the working directory.
C40_PlainToolStaysInsidePwd ==
    (argument # None /\ argument[1].function = "FileManagementTool" /\ PlainTool(argument[1]))
        => C40_EveryOperationInsidePwd

\* The validator accepted the working directory as parent with the name
\* "../other"; the call removed the directory /other.
C40_Witness_FolderOutsideRemoved ==
    /\ argument = Some(FileManagementTool(Path(FALSE, <<"..", "other">>), "delete", "folder", pwd))
    /\ value = Some(Ok(argument[1]))
    /\ log = <<[op |-> "is_dir", at |-> <<"other">>], [op |-> "rmdir", at |-> <<"other">>]>>

====
